---- MODULE Spec2Model ----
(***************************************************************************)
(* Phone investigation system: the investigation orchestration engine of   *)
(* src/app/main.py (rate limiter, expiring cache, module manager,          *)
(* background runs and polling) and the per-module limiter of              *)
(* src/app/modules/base_module.py.                                         *)
(*                                                                         *)
(* Time is the integer reading of time.time(); it never decreases.         *)
(* Configuration values (limits, periods, expiry) are scaled down to small *)
(* integers; the code only ever compares and adds them.                    *)
(***************************************************************************)
EXTENDS Integers, Sequences, FiniteSets, TLC

\* ------------------------------------------------------------------------
\* Bounds and scaled configuration
\* ------------------------------------------------------------------------
MaxTime == 2                 \* the clock stops advancing here
RATE_LIMIT_REQUESTS == 2     \* Config.RATE_LIMIT_REQUESTS (10 in the source)
RATE_LIMIT_PERIOD == 2       \* Config.RATE_LIMIT_PERIOD (60 in the source)
rate_limit == 2              \* BaseModule.rate_limit (default 10)
rate_period == 3             \* BaseModule.rate_period (default 60)
MaxCalls == 2                \* calls made by one concurrent caller thread
CACHE_EXPIRY == 2            \* Config.CACHE_EXPIRY (300 in the source)
MaxTtl == 2                  \* largest explicit expiry passed to Cache.set

Identifiers == {"k1", "k2"}  \* rate limiter keys (session phone / remote addr)
Threads == {"t1", "t2"}      \* request threads of the threaded WSGI server
CacheKeys == {"a", "b"}      \* keys of the module-level cache
Values == {"v1", "v2"}       \* payloads stored in the module-level cache

MaxRuns == 2                 \* run_investigation threads started in one behaviour
RunIds == 1..MaxRuns             \* run_investigation threads that index "run" may start
MaxResetTime == 1            \* largest reset_time passed to handle_rate_limit
MaxLiveRuns == 1             \* runs started in a behaviour of the fair specification
MaxHits == 1                 \* modules that get rate limited in one behaviour
REQUESTS_CAP == 1            \* capacity of Telemetry.requests (1000 in the source)
ERRORS_CAP == 2              \* capacity of Telemetry.errors (100 in the source)
MaxExecs == 2                \* direct module calls made in one behaviour
MaxDur == 1                  \* longest time one module body or provider call takes
MaxCacheCalls == 2           \* Cache.get calls made by one concurrent thread
MaxCacheKeys == 1            \* keys that concurrent threads contend for
MaxLogs == 3                 \* direct log_request / log_error calls explored
MaxDeniedRun == 2            \* denied calls in a row that the history tells apart
MaxUpdates == 3              \* update_investigation_results calls made in one behaviour
MaxDigits == 3               \* every digit string up to this length is analysed

\* ModuleManager.modules, in registration order
ModuleNames == <<"phone_info", "social_media", "spam_risk", "web_search">>
Modules == {ModuleNames[i] : i \in DOMAIN ModuleNames}

\* session['phone_number'] as built by "add phonenumber": "+" and digits
Phones == {<<"+", "8", "0", "0", "5">>, <<"+", "9", "0", "0", "1">>}

\* Python's None / a present value, as an empty / one-element sequence
None == <<>>
Some(x) == <<x>>

VARIABLES
    now,            \* time.time()
    requests,       \* RateLimiter.requests : identifier -> list of timestamps
    request_times,  \* BaseModule.request_times : list of timestamps
    rl_last,        \* the most recent limiter call: its inputs and its answer
    thr,            \* request threads inside RateLimiter.is_allowed
    admitted,       \* history: admission timestamps per identifier or module
    cache,          \* Cache.cache of the module-level `cache` : key -> (data, expiry)
    c_last,         \* the most recent Cache call: its inputs and its answer
    c_set,          \* history: per key, the arguments and time of the latest set
    c_absent,       \* history: per key, get answered absent since the latest set
    cthr,           \* request threads inside Cache.get
    rate_limited,   \* InvestigationModule.rate_limited, per module
    rate_limit_reset, \* InvestigationModule.rate_limit_reset, per module
    parse_class,    \* what the phonenumbers library answers for each number
    rules,          \* AIReasoningEngine.rules, as loaded at construction
    tel_requests,   \* Telemetry.requests of the module-level `telemetry`
    tel_errors,     \* Telemetry.errors of the module-level `telemetry`
    call_last,      \* the most recent direct module or telemetry call and its outcome
    lthr,           \* threads inside Telemetry.log_request or log_error
    results_cache,  \* Cache.cache of the module-level `results_cache`
    run,            \* the run_investigation threads started by index "run"
    poll_last,      \* the most recent investigation_status call and its answer
    investigation   \* the stored row of one InvestigationRequest, None before it exists

rlVars == <<requests, request_times, rl_last>>
concVars == <<thr, admitted>>
cacheVars == <<cache, c_last, c_set, c_absent, cthr>>
modVars == <<rate_limited, rate_limit_reset, parse_class, rules>>
telVars == <<tel_requests, tel_errors, call_last, lthr>>
orchVars == <<results_cache, run, poll_last>>
dbVars == <<investigation>>
vars == <<now, requests, request_times, rl_last, thr, admitted,
          cache, c_last, c_set, c_absent, cthr,
          rate_limited, rate_limit_reset, parse_class, rules,
          tel_requests, tel_errors, call_last, lthr,
          results_cache, run, poll_last, investigation>>

\* ------------------------------------------------------------------------
\* Phone numbers and digit strings.  A phone number is a sequence of
\* one-character strings; index "run" always builds "+" followed by digits.
\* ------------------------------------------------------------------------
DigitChars == <<"0", "1", "2", "3", "4", "5", "6", "7", "8", "9">>
IsDigit(c) == \E i \in DOMAIN DigitChars : DigitChars[i] = c

\* int(c)
DigitVal(c) == (CHOOSE i \in DOMAIN DigitChars : DigitChars[i] = c) - 1

\* re.sub(r'\D', '', phone_number)
DigitsOf(phone_number) == SelectSeq(phone_number, IsDigit)

\* pattern in digits
Contains(digits, pattern) ==
    \E i \in 0..(Len(digits) - Len(pattern)) :
        \A j \in 1..Len(pattern) : digits[i + j] = pattern[j]

\* digits.startswith(prefix)
StartsWith(digits, prefix) ==
    /\ Len(prefix) <= Len(digits)
    /\ \A j \in 1..Len(prefix) : digits[j] = prefix[j]

\* s.count(c)
Count(s, c) == Cardinality({i \in DOMAIN s : s[i] = c})

\* ------------------------------------------------------------------------
\* PatternAnalyzer
\* ------------------------------------------------------------------------
\* 1000 * c * log2(c), rounded, for the counts that occur
CLog2Milli == <<0, 2000, 4755, 8000, 11610, 15510, 19651, 24000, 28529, 33219,
                38054, 43020>>

RECURSIVE SumCLog2(_, _)
SumCLog2(s, chars) ==
    IF chars = {} THEN 0
    ELSE LET c == CHOOSE x \in chars : TRUE
         IN  CLog2Milli[Count(s, c)] + SumCLog2(s, chars \ {c})

\* PatternAnalyzer.calculate_entropy, in thousandths of a bit:
\* sum of -p log2 p  =  (n log2 n - sum of c log2 c) / n
calculate_entropy(s) ==
    IF Len(s) = 0 THEN 0
    ELSE (CLog2Milli[Len(s)] - SumCLog2(s, {s[i] : i \in DOMAIN s})) \div Len(s)

\* PatternAnalyzer.find_sequences
RECURSIVE FindSeqFrom(_, _)
FindSeqFrom(digits, i) ==
    IF i > Len(digits) - 2 THEN <<>>
    ELSE LET a == DigitVal(digits[i])
             b == DigitVal(digits[i + 1])
             c == DigitVal(digits[i + 2])
             hit == \/ (a + 1 = b /\ b + 1 = c)
                    \/ (a - 1 = b /\ b - 1 = c)
         IN  (IF hit THEN <<SubSeq(digits, i, i + 2)>> ELSE <<>>)
             \o FindSeqFrom(digits, i + 1)

find_sequences(digits) == FindSeqFrom(digits, 1)

\* the distinct characters of s in order of first occurrence (Counter order)
RECURSIVE FirstSeen(_, _)
FirstSeen(s, i) ==
    IF i > Len(s) THEN <<>>
    ELSE (IF \E j \in 1..(i - 1) : s[j] = s[i] THEN <<>> ELSE <<s[i]>>)
         \o FirstSeen(s, i + 1)

VirtualPatterns3 ==
    {<<"1", "2", "3">>} \cup {<<DigitChars[i], DigitChars[i], DigitChars[i]>> : i \in 1..10}

\* A pattern analysis that stops at its first finding
analyze_phone_pattern_StopsAtFirst(phone_number) ==
    LET digits == DigitsOf(phone_number)
        repeated_digits == SelectSeq(FirstSeen(digits, 1),
                               LAMBDA d : 2 * Count(digits, d) > Len(digits))
        sequences == find_sequences(digits)
    IN  IF repeated_digits # <<>>
        THEN <<[finding |-> "Repeated digits", items |-> repeated_digits]>>
        ELSE IF sequences # <<>>
        THEN <<[finding |-> "Sequences found", items |-> sequences]>>
        ELSE IF \E pat \in VirtualPatterns3 : Contains(digits, pat)
        THEN <<[finding |-> "Contains virtual number patterns", items |-> <<>>]>>
        ELSE <<>>

\* PatternAnalyzer.analyze_phone_pattern: the findings, in order
analyze_phone_pattern(phone_number) ==
    LET digits == DigitsOf(phone_number)
        repeated_digits == SelectSeq(FirstSeen(digits, 1),
                               LAMBDA d : 2 * Count(digits, d) > Len(digits))
        sequences == find_sequences(digits)
    IN  (IF repeated_digits # <<>>
         THEN <<[finding |-> "Repeated digits", items |-> repeated_digits]>> ELSE <<>>)
        \o (IF sequences # <<>>
            THEN <<[finding |-> "Sequences found", items |-> sequences]>> ELSE <<>>)
        \o (IF \E pat \in VirtualPatterns3 : Contains(digits, pat)
            THEN <<[finding |-> "Contains virtual number patterns", items |-> <<>>]>>
            ELSE <<>>)

\* ------------------------------------------------------------------------
\* AIReasoningEngine
\* ------------------------------------------------------------------------
\* A built-in table whose entropy threshold is 3.0 bits
DefaultRules_LowThreshold ==
    [high_entropy |-> [threshold |-> 3000,
                       message |-> "High entropy detected",
                       risk |-> "medium"],
     toll_free |-> [patterns |-> <<<<"8", "0", "0">>, <<"8", "8", "8">>, <<"8", "7", "7">>,
                                   <<"8", "6", "6">>, <<"8", "5", "5">>, <<"8", "4", "4">>,
                                   <<"8", "3", "3">>>>,
                    message |-> "Toll-free number detected",
                    risk |-> "low"],
     premium_rate |-> [patterns |-> <<<<"9", "0", "0">>, <<"9", "7", "6">>>>,
                       message |-> "Premium rate number detected",
                       risk |-> "high"]]

\* AIReasoningEngine.load_rules, the built-in table (threshold 3.5 bits)
DefaultRules ==
    [high_entropy |-> [threshold |-> 3500,
                       message |-> "High entropy detected",
                       risk |-> "medium"],
     toll_free |-> [patterns |-> <<<<"8", "0", "0">>, <<"8", "8", "8">>, <<"8", "7", "7">>,
                                   <<"8", "6", "6">>, <<"8", "5", "5">>, <<"8", "4", "4">>,
                                   <<"8", "3", "3">>>>,
                    message |-> "Toll-free number detected",
                    risk |-> "low"],
     premium_rate |-> [patterns |-> <<<<"9", "0", "0">>, <<"9", "7", "6">>>>,
                       message |-> "Premium rate number detected",
                       risk |-> "high"]]

\* a table read from modules/reasoning_rules.json with a lower threshold
LoadedRules == [DefaultRules EXCEPT !.high_entropy.threshold = 1000]

\* a table read from modules/reasoning_rules.json that lacks a rule
BrokenRules == [high_entropy |-> DefaultRules.high_entropy,
                toll_free |-> DefaultRules.toll_free]

RuleTables == {DefaultRules, LoadedRules, BrokenRules}

\* analyze raises KeyError when a rule it indexes is missing
AnalyzeRaises(table) ==
    ~({"high_entropy", "toll_free", "premium_rate"} \subseteq DOMAIN table)

\* for pattern in rule['patterns']: if pattern in digits: append, append, break
\* -- what the loop contributes, scanning from pattern i on
RECURSIVE ScanRule(_, _, _)
ScanRule(rule, digits, i) ==
    IF i > Len(rule.patterns) THEN <<>>
    ELSE IF Contains(digits, rule.patterns[i])
         THEN <<[message |-> rule.message, risk |-> rule.risk]>>
         ELSE ScanRule(rule, digits, i + 1)

\* An analyze whose prefix loops do not stop at the first match
Contributions_EveryPattern(table, digits) ==
    LET All(rule) ==
            LET hits == {j \in DOMAIN rule.patterns : Contains(digits, rule.patterns[j])}
            IN  [k \in 1..Cardinality(hits) |-> [message |-> rule.message, risk |-> rule.risk]]
    IN  (IF calculate_entropy(digits) > table.high_entropy.threshold
         THEN <<[message |-> table.high_entropy.message, risk |-> table.high_entropy.risk]>>
         ELSE <<>>)
        \o All(table.toll_free)
        \o All(table.premium_rate)

\* the (insight, risk) pairs analyze appends, in the order it appends them
Contributions(table, digits) ==
    (IF calculate_entropy(digits) > table.high_entropy.threshold
     THEN <<[message |-> table.high_entropy.message, risk |-> table.high_entropy.risk]>>
     ELSE <<>>)
    \o ScanRule(table.toll_free, digits, 1)
    \o ScanRule(table.premium_rate, digits, 1)

\* An overall risk that is the tier of the first rule that matched
OverallRisk_FirstMatchWins(risks) ==
    IF risks = <<>> THEN "low" ELSE risks[1]

\* lines 215-219: "high" in risks, elif "medium" in risks, else "low"
OverallRisk(risks) ==
    IF \E i \in DOMAIN risks : risks[i] = "high" THEN "high"
    ELSE IF \E i \in DOMAIN risks : risks[i] = "medium" THEN "medium"
    ELSE "low"

\* AIReasoningEngine.analyze, when it returns
analyze(table, phone_number) ==
    LET digits == DigitsOf(phone_number)
        contributed == Contributions(table, digits)
        insights == [i \in DOMAIN contributed |-> contributed[i].message]
        risks == [i \in DOMAIN contributed |-> contributed[i].risk]
    IN  [insights |-> insights,
         entropy |-> calculate_entropy(digits),
         risk_level |-> OverallRisk(risks),
         pattern_analysis |-> analyze_phone_pattern(phone_number)]

\* ------------------------------------------------------------------------
\* Clock
\* ------------------------------------------------------------------------
Tick ==
    /\ now < MaxTime
    /\ now' = now + 1

\* ------------------------------------------------------------------------
\* RateLimiter (src/app/main.py) and BaseModule.check_rate_limit
\* ------------------------------------------------------------------------
\* [req_time for req_time in lst if now - req_time < period]
Prune(lst, t, period) == SelectSeq(lst, LAMBDA req_time : t - req_time < period)

\* A limiter that also records the timestamp of a call it denies
IsAllowedStep_RecordsDenied(lst, t) ==
    LET kept == Prune(lst, t, RATE_LIMIT_PERIOD)
    IN  <<Append(kept, t), Len(kept) < RATE_LIMIT_REQUESTS>>

\* A limiter whose denied call restarts the window of the timestamps it keeps
IsAllowedStep_DenialRestartsWindow(lst, t) ==
    LET kept == Prune(lst, t, RATE_LIMIT_PERIOD)
    IN  IF Len(kept) < RATE_LIMIT_REQUESTS
        THEN <<Append(kept, t), TRUE>>
        ELSE <<[i \in DOMAIN kept |-> t], FALSE>>

\* RateLimiter.is_allowed as one uninterrupted call: <<new list, answer>>
IsAllowedStep(lst, t) ==
    LET kept == Prune(lst, t, RATE_LIMIT_PERIOD)
    IN  IF Len(kept) < RATE_LIMIT_REQUESTS
        THEN <<Append(kept, t), TRUE>>
        ELSE <<kept, FALSE>>

\* BaseModule.check_rate_limit as one uninterrupted call:
\* <<new list, "ok" or "RateLimitException">>
CheckRateLimitStep(lst, t) ==
    LET kept == Prune(lst, t, rate_period)
    IN  IF Len(kept) >= rate_limit
        THEN <<kept, "RateLimitException">>
        ELSE <<Append(kept, t), "ok">>

NoCall == [op |-> "none"]

\* the keys of the admission history: the identifiers and the connector
AdmissionKeys == Identifiers \cup {"numverify"}

\* history: how many calls for this key were denied in a row just before the
\* call being made, counted up to MaxDeniedRun
DeniedRun(key) ==
    IF rl_last.op = "none" \/ rl_last.key # key \/ rl_last.answer THEN 0
    ELSE IF rl_last.denied_run < MaxDeniedRun THEN rl_last.denied_run + 1
    ELSE MaxDeniedRun

is_allowed(identifier) ==
    LET r == IsAllowedStep(requests[identifier], now)
    IN  /\ requests' = [requests EXCEPT ![identifier] = r[1]]
        /\ rl_last' = [op |-> "is_allowed", key |-> identifier, at |-> now,
                       before |-> requests[identifier], answer |-> r[2],
                       denied_run |-> DeniedRun(identifier)]
        /\ admitted' = IF r[2] THEN [admitted EXCEPT ![identifier] = Append(@, now)]
                       ELSE admitted
        /\ UNCHANGED <<dbVars, now, request_times, thr, cacheVars, modVars, telVars, orchVars>>

check_rate_limit ==
    LET r == CheckRateLimitStep(request_times, now)
    IN  /\ request_times' = r[1]
        /\ rl_last' = [op |-> "check_rate_limit", key |-> "numverify", at |-> now,
                       before |-> request_times, answer |-> (r[2] = "ok"),
                       denied_run |-> DeniedRun("numverify")]
        /\ admitted' = IF r[2] = "ok" THEN [admitted EXCEPT !["numverify"] = Append(@, now)]
                       ELSE admitted
        /\ UNCHANGED <<dbVars, now, requests, thr, cacheVars, modVars, telVars, orchVars>>

RLTick == Tick /\ UNCHANGED <<dbVars, rlVars, concVars, cacheVars, modVars, telVars, orchVars>>

\* ------------------------------------------------------------------------
\* Cache (src/app/main.py): a dict key -> (data, expiry)
\* ------------------------------------------------------------------------
\* the state of every part no specification below is about
IdleRL ==
    /\ requests = [k \in Identifiers |-> <<>>]
    /\ request_times = <<>>
    /\ rl_last = NoCall
    /\ thr = [t \in Threads |-> [pc |-> "idle", key |-> "k1", at |-> 0,
                                 tmp |-> <<>>, calls |-> 0]]
    /\ admitted = [k \in AdmissionKeys |-> <<>>]

\* a request thread that is not inside Cache.get
IdleGet == [pc |-> "idle", key |-> "a", entry |-> None, calls |-> 0,
            raised |-> FALSE, removed_newer |-> FALSE]

IdleCache ==
    /\ cache = <<>>
    /\ c_last = NoCall
    /\ c_set = [k \in CacheKeys |-> None]
    /\ c_absent = [k \in CacheKeys |-> FALSE]
    /\ cthr = [t \in Threads |-> IdleGet]

\* a thread that is not inside Telemetry.log_request
IdleLog == [pc |-> "idle", buf |-> "requests", sliced |-> <<>>]

IdleMods ==
    /\ rate_limited = [m \in Modules |-> FALSE]
    /\ rate_limit_reset = [m \in Modules |-> 0]
    /\ tel_requests = <<>>
    /\ tel_errors = <<>>
    /\ call_last = NoCall
    /\ lthr = [t \in Threads |-> IdleLog]

IdleRun == [pc |-> "idle", phone |-> <<>>, i |-> 0, results |-> <<>>,
            raised_in |-> {}, exc |-> None, written |-> None, writes |-> 0]

IdleOrch ==
    /\ results_cache = <<>>
    /\ run = [r \in RunIds |-> IdleRun]
    /\ poll_last = NoCall
    /\ investigation = None

\* del d[key]
DictDel(d, key) == [k \in DOMAIN d \ {key} |-> d[k]]

\* d[key] = entry
DictPut(d, key, entry) == [k \in DOMAIN d \cup {key} |-> IF k = key THEN entry ELSE d[k]]

\* A get that answers absent for an expired entry but leaves it stored
CacheGet_KeepsExpired(d, key, t) ==
    IF key \in DOMAIN d /\ t < d[key].expiry
    THEN <<d, Some(d[key].data)>>
    ELSE <<d, None>>

\* A get that still serves an entry at the very instant of its expiry
CacheGet_ServesAtExpiry(d, key, t) ==
    IF key \in DOMAIN d
    THEN IF t <= d[key].expiry
         THEN <<d, Some(d[key].data)>>
         ELSE <<DictDel(d, key), None>>
    ELSE <<d, None>>

\* Cache.get: <<the dict afterwards, the value returned (None when absent)>>
CacheGet(d, key, t) ==
    IF key \in DOMAIN d
    THEN IF t < d[key].expiry
         THEN <<d, Some(d[key].data)>>
         ELSE <<DictDel(d, key), None>>
    ELSE <<d, None>>

\* A set that never shortens the life of the entry it replaces
CacheSet_KeepsLaterExpiry(d, key, data, expiry, t) ==
    LET e == IF expiry = None THEN CACHE_EXPIRY ELSE expiry[1]
        old == IF key \in DOMAIN d THEN d[key].expiry ELSE 0
    IN  DictPut(d, key, [data |-> data, expiry |-> IF old > t + e THEN old ELSE t + e])

\* Cache.set: expiry is None or Some(seconds); the dict afterwards
CacheSet(d, key, data, expiry, t) ==
    LET e == IF expiry = None THEN CACHE_EXPIRY ELSE expiry[1]
    IN  DictPut(d, key, [data |-> data, expiry |-> t + e])

get(key) ==
    LET r == CacheGet(cache, key, now)
    IN  /\ cache' = r[1]
        /\ c_last' = [op |-> "get", key |-> key, at |-> now, answer |-> r[2]]
        /\ c_absent' = [c_absent EXCEPT ![key] = @ \/ r[2] = None]
        /\ UNCHANGED <<dbVars, now, c_set, cthr, rlVars, concVars, modVars, telVars, orchVars>>

set(key, data, expiry) ==
    /\ cache' = CacheSet(cache, key, data, expiry, now)
    /\ c_last' = [op |-> "set", key |-> key, at |-> now, answer |-> None,
                   data |-> data, arg |-> expiry,
                   replaced |-> IF key \in DOMAIN cache THEN Some(cache[key]) ELSE None]
    /\ c_set' = [c_set EXCEPT ![key] =
                    Some([data |-> data, at |-> now,
                          ttl |-> IF expiry = None THEN CACHE_EXPIRY ELSE expiry[1]])]
    /\ c_absent' = [c_absent EXCEPT ![key] = FALSE]
    /\ UNCHANGED <<dbVars, now, cthr, rlVars, concVars, modVars, telVars, orchVars>>

CacheTick == Tick /\ UNCHANGED <<dbVars, rlVars, concVars, cacheVars, modVars, telVars, orchVars>>

InitCache ==
    /\ now = 0
    /\ IdleRL
    /\ IdleCache
    /\ IdleMods
    /\ parse_class = [p \in Phones |-> "valid"]
    /\ rules = DefaultRules
    /\ IdleOrch

NextCache ==
    \/ \E k \in CacheKeys : get(k)
    \/ \E k \in CacheKeys, v \in Values,
          e \in {None} \cup {Some(n) : n \in 0..MaxTtl} : set(k, v, e)
    \/ CacheTick

SpecCache == InitCache /\ [][NextCache]_vars

\* C3: after set(key, value, ttl) at time t and no later set of that key,
\* get(key) returns value at every time before t + ttl and absent from
\* t + ttl on; once it has returned absent it never returns value again.
C3_VisibleUntilExpiry ==
    (c_last.op = "get" /\ c_set[c_last.key] # None) =>
        LET s == c_set[c_last.key][1]
        IN  /\ c_last.at < s.at + s.ttl => c_last.answer = Some(s.data)
            /\ c_last.at >= s.at + s.ttl => c_last.answer = None
            /\ c_last.answer # None => ~c_absent[c_last.key]

\* C3 witness: a get after the entry's expiry answered absent, for a key
\* that was set with a positive ttl
C3_Witness ==
    /\ c_last.op = "get"
    /\ c_set[c_last.key] # None
    /\ c_set[c_last.key][1].ttl > 0
    /\ c_last.at >= c_set[c_last.key][1].at + c_set[c_last.key][1].ttl
    /\ c_last.answer = None

InitRL ==
    /\ now = 0
    /\ requests = [k \in Identifiers |-> <<>>]
    /\ request_times = <<>>
    /\ rl_last = NoCall
    /\ thr = [t \in Threads |-> [pc |-> "idle", key |-> "k1", at |-> 0,
                                 tmp |-> <<>>, calls |-> 0]]
    /\ admitted = [k \in AdmissionKeys |-> <<>>]
    /\ IdleCache
    /\ IdleMods
    /\ parse_class = [p \in Phones |-> "valid"]
    /\ rules = DefaultRules
    /\ IdleOrch

NextRL ==
    \/ \E k \in Identifiers : is_allowed(k)
    \/ check_rate_limit
    \/ RLTick

SpecRL == InitRL /\ [][NextRL]_vars

\* ------------------------------------------------------------------------
\* RateLimiter.is_allowed called from several request threads.  Python runs
\* the statements of lines 46-53 without any lock, so another thread can run
\* between any two of them.
\* ------------------------------------------------------------------------
\* line 46: now = time.time()
t_now(t, identifier) ==
    /\ thr[t].pc = "idle"
    /\ thr[t].calls < MaxCalls
    /\ thr' = [thr EXCEPT ![t] = [pc |-> "prune", key |-> identifier, at |-> now,
                                  tmp |-> <<>>, calls |-> thr[t].calls + 1]]
    /\ UNCHANGED <<dbVars, now, rlVars, admitted, cacheVars, modVars, telVars, orchVars>>

\* line 47, right-hand side: the comprehension over self.requests[identifier]
t_prune(t) ==
    /\ thr[t].pc = "prune"
    /\ thr' = [thr EXCEPT ![t].pc = "store",
                          ![t].tmp = Prune(requests[thr[t].key], thr[t].at,
                                           RATE_LIMIT_PERIOD)]
    /\ UNCHANGED <<dbVars, now, rlVars, admitted, cacheVars, modVars, telVars, orchVars>>

\* line 47, assignment: self.requests[identifier] = <the new list>
t_store(t) ==
    /\ thr[t].pc = "store"
    /\ requests' = [requests EXCEPT ![thr[t].key] = thr[t].tmp]
    /\ thr' = [thr EXCEPT ![t].pc = "check", ![t].tmp = <<>>]
    /\ UNCHANGED <<dbVars, now, request_times, rl_last, admitted, cacheVars, modVars, telVars, orchVars>>

\* line 50: if len(self.requests[identifier]) < RATE_LIMIT_REQUESTS
\* line 53: return False
t_check(t) ==
    /\ thr[t].pc = "check"
    /\ thr' = [thr EXCEPT ![t].pc =
                  IF Len(requests[thr[t].key]) < RATE_LIMIT_REQUESTS
                  THEN "append" ELSE "idle"]
    /\ UNCHANGED <<dbVars, now, rlVars, admitted, cacheVars, modVars, telVars, orchVars>>

\* lines 51-52: self.requests[identifier].append(now); return True
t_append(t) ==
    /\ thr[t].pc = "append"
    /\ requests' = [requests EXCEPT ![thr[t].key] = Append(@, thr[t].at)]
    /\ admitted' = [admitted EXCEPT ![thr[t].key] = Append(@, thr[t].at)]
    /\ thr' = [thr EXCEPT ![t].pc = "idle"]
    /\ UNCHANGED <<dbVars, now, request_times, rl_last, cacheVars, modVars, telVars, orchVars>>

NextRLConc ==
    \/ \E t \in Threads, k \in Identifiers : t_now(t, k)
    \/ \E t \in Threads : t_prune(t)
    \/ \E t \in Threads : t_store(t)
    \/ \E t \in Threads : t_check(t)
    \/ \E t \in Threads : t_append(t)
    \/ RLTick

SpecRLConc == InitRL /\ [][NextRLConc]_vars

\* Number of entries of lst that lie in the trailing window ending at t
InWindow(lst, t, period) ==
    Cardinality({i \in DOMAIN lst : lst[i] <= t /\ t - lst[i] < period})

\* C1: for every key, under any interleaving of concurrent callers, no more
\* than RATE_LIMIT_REQUESTS admitted calls have their admission time in any
\* trailing window of RATE_LIMIT_PERIOD, and the in-window timestamps kept
\* for a key never number more than RATE_LIMIT_REQUESTS.
C1_NeverOverAdmits ==
    \A k \in Identifiers : \A t \in 0..MaxTime :
        /\ InWindow(admitted[k], t, RATE_LIMIT_PERIOD) <= RATE_LIMIT_REQUESTS
        /\ InWindow(requests[k], t, RATE_LIMIT_PERIOD) <= RATE_LIMIT_REQUESTS

\* C2: one limiter check drops every timestamp older than the period; it
\* admits exactly when fewer than the limit remain, recording the current
\* time; a denied call leaves exactly the pruned timestamps and records
\* nothing.
C2_Kept(lst, t, period) ==
    SelectSeq(lst, LAMBDA x : ~(t - x >= period))

C2_CallShape(after, limit, period) ==
    LET kept == C2_Kept(rl_last.before, rl_last.at, period)
    IN  /\ \A i \in DOMAIN after : ~(rl_last.at - after[i] > period)
        /\ rl_last.answer = (Len(kept) < limit)
        /\ rl_last.answer => after = kept \o <<rl_last.at>>
        /\ ~rl_last.answer => after = kept

C2_SingleCheck ==
    /\ rl_last.op = "is_allowed" =>
          C2_CallShape(requests[rl_last.key], RATE_LIMIT_REQUESTS, RATE_LIMIT_PERIOD)
    /\ rl_last.op = "check_rate_limit" =>
          C2_CallShape(request_times, rate_limit, rate_period)

\* C2 witness: a call was denied after the limit had been reached, and the
\* list it left behind is the list it found
C2_Witness ==
    /\ rl_last.op = "is_allowed"
    /\ ~rl_last.answer
    /\ Len(rl_last.before) = RATE_LIMIT_REQUESTS
    /\ requests[rl_last.key] = rl_last.before


\* ------------------------------------------------------------------------
\* Telemetry (src/app/main.py).  The timestamp field of an entry, a string
\* made from the wall clock, is left out.
\* ------------------------------------------------------------------------
\* lst[-n:]
LastN(lst, n) == IF Len(lst) > n THEN SubSeq(lst, Len(lst) - n + 1, Len(lst)) ELSE lst

\* A log_request that keeps the oldest entries when the list is full
LogRequest_KeepsOldest(lst, phone_number, module, success, response_time) ==
    LET entry == [phone_number |-> phone_number, module |-> module,
                  success |-> success, response_time |-> response_time]
        appended == Append(lst, entry)
    IN  IF Len(appended) > REQUESTS_CAP THEN SubSeq(appended, 1, REQUESTS_CAP) ELSE appended

\* Telemetry.log_request as one uninterrupted call: the list afterwards
LogRequest(lst, phone_number, module, success, response_time) ==
    LET entry == [phone_number |-> phone_number, module |-> module,
                  success |-> success, response_time |-> response_time]
        appended == Append(lst, entry)
    IN  IF Len(appended) > REQUESTS_CAP THEN LastN(appended, REQUESTS_CAP) ELSE appended

\* Telemetry.log_error as one uninterrupted call: the list afterwards
LogError(lst, phone_number, module, error_message) ==
    LET entry == [phone_number |-> phone_number, module |-> module,
                  error |-> error_message]
        appended == Append(lst, entry)
    IN  IF Len(appended) > ERRORS_CAP THEN LastN(appended, ERRORS_CAP) ELSE appended

\* ------------------------------------------------------------------------
\* Investigation modules (src/app/main.py)
\* ------------------------------------------------------------------------
\* what a call returns or raises
Returned(v) == [raised |-> FALSE, value |-> v]
Raised(msg) == [raised |-> TRUE, value |-> msg]

\* PhoneNumberModule._execute; the fields read from the library's tables
\* (country, operator, timezones) are left out of the payload
PhoneInfoExecute(cls) ==
    IF cls = "unparsable" THEN Raised("NumberParseException")
    ELSE IF cls = "invalid" THEN Returned([error |-> "Invalid phone number"])
    ELSE Returned([is_valid |-> TRUE])

\* SocialMediaModule._execute
SocialMediaExecute ==
    Returned([platform \in {"facebook", "instagram", "twitter", "linkedin"} |->
                 [found |-> FALSE, profiles |-> <<>>]])

known_spam_prefixes ==
    <<<<"8", "0", "0">>, <<"9", "0", "0">>, <<"9", "7", "6">>, <<"8", "5", "5">>,
      <<"8", "6", "6">>, <<"8", "7", "7">>, <<"8", "8", "8">>>>

VirtualPatterns4 ==
    {<<"1", "2", "3", "4">>}
    \cup {<<DigitChars[i], DigitChars[i], DigitChars[i], DigitChars[i]>> : i \in 1..10}

\* SpamRiskModule._get_risk_level
GetRiskLevel(score) ==
    IF score < 20 THEN "Low" ELSE IF score < 50 THEN "Medium" ELSE "High"

Min(a, b) == IF a < b THEN a ELSE b

\* A scoring that leaves a sum of 0 as it is
SpamRiskLocals_NoDefault(phone_number, cls) ==
    LET digits == DigitsOf(phone_number)
        s1 == IF cls = "unparsable" THEN 50 ELSE IF cls = "invalid" THEN 30 ELSE 0
        r1 == IF cls = "unparsable" THEN <<"Cannot parse phone number">>
              ELSE IF cls = "invalid" THEN <<"Invalid phone number format">> ELSE <<>>
        hits == {i \in DOMAIN known_spam_prefixes :
                     StartsWith(digits, known_spam_prefixes[i])}
        s2 == IF hits # {} THEN 20 ELSE 0
        r2 == IF hits # {}
              THEN <<<<"Matches known spam prefix",
                       known_spam_prefixes[CHOOSE i \in hits : \A j \in hits : i <= j]>>>>
              ELSE <<>>
        virt == \E pat \in VirtualPatterns4 : Contains(digits, pat)
        s3 == IF virt THEN 15 ELSE 0
        r3 == IF virt THEN <<"Virtual number pattern detected">> ELSE <<>>
        sum == s1 + s2 + s3
    IN  [risk_score |-> sum, reasons |-> r1 \o r2 \o r3]

\* A scoring in which a number that cannot be parsed gets both penalties
SpamRiskLocals_BothPenalties(phone_number, cls) ==
    LET digits == DigitsOf(phone_number)
        s1 == IF cls = "unparsable" THEN 80 ELSE IF cls = "invalid" THEN 30 ELSE 0
        r1 == IF cls = "unparsable"
              THEN <<"Invalid phone number format", "Cannot parse phone number">>
              ELSE IF cls = "invalid" THEN <<"Invalid phone number format">> ELSE <<>>
        hits == {i \in DOMAIN known_spam_prefixes :
                     StartsWith(digits, known_spam_prefixes[i])}
        s2 == IF hits # {} THEN 20 ELSE 0
        r2 == IF hits # {}
              THEN <<<<"Matches known spam prefix",
                       known_spam_prefixes[CHOOSE i \in hits : \A j \in hits : i <= j]>>>>
              ELSE <<>>
        virt == \E pat \in VirtualPatterns4 : Contains(digits, pat)
        s3 == IF virt THEN 15 ELSE 0
        r3 == IF virt THEN <<"Virtual number pattern detected">> ELSE <<>>
        sum == s1 + s2 + s3
    IN  [risk_score |-> IF sum = 0 THEN 10 ELSE sum, reasons |-> r1 \o r2 \o r3]

\* SpamRiskModule._execute, lines 418-449: risk_score and reasons before the
\* return statement
SpamRiskLocals(phone_number, cls) ==
    LET digits == DigitsOf(phone_number)
        s1 == IF cls = "unparsable" THEN 50 ELSE IF cls = "invalid" THEN 30 ELSE 0
        r1 == IF cls = "unparsable" THEN <<"Cannot parse phone number">>
              ELSE IF cls = "invalid" THEN <<"Invalid phone number format">> ELSE <<>>
        hits == {i \in DOMAIN known_spam_prefixes :
                     StartsWith(digits, known_spam_prefixes[i])}
        s2 == IF hits # {} THEN 20 ELSE 0
        r2 == IF hits # {}
              THEN <<<<"Matches known spam prefix",
                       known_spam_prefixes[CHOOSE i \in hits : \A j \in hits : i <= j]>>>>
              ELSE <<>>
        virt == \E pat \in VirtualPatterns4 : Contains(digits, pat)
        s3 == IF virt THEN 15 ELSE 0
        r3 == IF virt THEN <<"Virtual number pattern detected">> ELSE <<>>
        sum == s1 + s2 + s3
    IN  [risk_score |-> IF sum = 0 THEN 10 ELSE sum, reasons |-> r1 \o r2 \o r3]

\* SpamRiskModule._execute
SpamRiskExecute(phone_number, cls) ==
    LET l == SpamRiskLocals(phone_number, cls)
    IN  Returned([risk_score |-> Min(100, l.risk_score),
                  risk_level |-> GetRiskLevel(l.risk_score),
                  reasons |-> l.reasons])

\* WebSearchModule._execute
WebSearchExecute == Returned([results |-> <<>>])

\* InvestigationModule.check_rate_limit: does it raise?
ModuleRateLimited(limited, reset, t) == limited /\ t < reset

\* An execute that runs the module body before it looks at the limiter
Execute_ChecksLimitLast(name, phone_number, limited, reset, cls, t) ==
    LET body == CASE name = "phone_info" -> PhoneInfoExecute(cls)
                  [] name = "social_media" -> SocialMediaExecute
                  [] name = "spam_risk" -> SpamRiskExecute(phone_number, cls)
                  [] name = "web_search" -> WebSearchExecute
    IN  IF body.raised THEN body
        ELSE IF ModuleRateLimited(limited, reset, t)
        THEN Raised("Module is rate limited. Try again later.")
        ELSE body

\* InvestigationModule.execute: check_rate_limit, then the module's _execute
Execute(name, phone_number, limited, reset, cls, t) ==
    IF ModuleRateLimited(limited, reset, t)
    THEN Raised("Module is rate limited. Try again later.")
    ELSE CASE name = "phone_info" -> PhoneInfoExecute(cls)
           [] name = "social_media" -> SocialMediaExecute
           [] name = "spam_risk" -> SpamRiskExecute(phone_number, cls)
           [] name = "web_search" -> WebSearchExecute

\* An execute that logs nothing about a call that failed
ExecuteTelemetry_SkipsFailures(reqs, errs, name, phone_number, o, response_time) ==
    IF o.raised THEN <<reqs, errs>>
    ELSE <<LogRequest(reqs, phone_number, name, TRUE, response_time), errs>>

\* InvestigationModule.execute, lines 301-306: what it logs for outcome o
\* after response_time seconds; <<requests, errors>> afterwards
ExecuteTelemetry(reqs, errs, name, phone_number, o, response_time) ==
    <<LogRequest(reqs, phone_number, name, ~o.raised, response_time),
      IF o.raised THEN LogError(errs, phone_number, name, o.value) ELSE errs>>

\* InvestigationModule.handle_rate_limit(reset_time)
handle_rate_limit(m, reset_time) ==
    /\ Cardinality({x \in Modules : rate_limited[x]} \cup {m}) <= MaxHits
    /\ rate_limited' = [rate_limited EXCEPT ![m] = TRUE]
    /\ rate_limit_reset' = [rate_limit_reset EXCEPT ![m] = now + reset_time]
    /\ tel_errors' = LogError(tel_errors, <<"system">>, m, "Rate limit hit")
    /\ UNCHANGED <<dbVars, now, rlVars, concVars, cacheVars, parse_class, rules,
                 tel_requests, call_last, lthr, orchVars>>

\* ------------------------------------------------------------------------
\* Starting, running and polling an investigation (src/app/main.py)
\* ------------------------------------------------------------------------
\* index, command "run": threading.Thread(target=run_investigation).start();
\* the handler then sleeps and redirects, which changes no state.  No line of
\* it reads results_cache or looks for a run already started.
index_run(phone_number) ==
    /\ \E r \in RunIds : run[r].pc = "idle"
    /\ LET r == CHOOSE x \in RunIds :
                    run[x].pc = "idle" /\ \A y \in RunIds : run[y].pc = "idle" => x <= y
       IN  run' = [run EXCEPT ![r] = [IdleRun EXCEPT !.pc = "modules",
                                                     !.phone = phone_number]]
    /\ UNCHANGED <<dbVars, now, rlVars, concVars, cacheVars, modVars, telVars, results_cache, poll_last>>

\* A loop that publishes the bundle to the result cache after every module
run_module_PublishesPartial(r) ==
    /\ run[r].pc = "modules"
    /\ LET name == ModuleNames[run[r].i + 1]
           o == Execute(name, run[r].phone, rate_limited[name], rate_limit_reset[name],
                        parse_class[run[r].phone], now)
           entry == IF o.raised THEN [error |-> o.value] ELSE o.value
           tel == ExecuteTelemetry(tel_requests, tel_errors, name, run[r].phone, o, 0)
       IN  /\ run' = [run EXCEPT
                        ![r].results = DictPut(@, name, entry),
                        ![r].raised_in = IF o.raised THEN @ \cup {name} ELSE @,
                        ![r].i = @ + 1,
                        ![r].pc = IF run[r].i + 1 = Len(ModuleNames)
                                  THEN "ai" ELSE "modules"]
           /\ results_cache' = CacheSet(results_cache, run[r].phone,
                                        DictPut(run[r].results, name, entry), None, now)
           /\ tel_requests' = tel[1]
           /\ tel_errors' = tel[2]
    /\ UNCHANGED <<dbVars, now, rlVars, concVars, cacheVars, modVars, call_last, lthr, poll_last>>

\* A loop that gives up on the remaining modules when one of them raises
run_module_AbortsOnFailure(r) ==
    /\ run[r].pc = "modules"
    /\ LET name == ModuleNames[run[r].i + 1]
           o == Execute(name, run[r].phone, rate_limited[name], rate_limit_reset[name],
                        parse_class[run[r].phone], now)
           entry == IF o.raised THEN [error |-> o.value] ELSE o.value
           tel == ExecuteTelemetry(tel_requests, tel_errors, name, run[r].phone, o, 0)
       IN  /\ run' = [run EXCEPT
                        ![r].results = DictPut(@, name, entry),
                        ![r].raised_in = IF o.raised THEN @ \cup {name} ELSE @,
                        ![r].i = @ + 1,
                        ![r].pc = IF o.raised \/ run[r].i + 1 = Len(ModuleNames)
                                  THEN "ai" ELSE "modules"]
           /\ tel_requests' = tel[1]
           /\ tel_errors' = tel[2]
    /\ UNCHANGED <<dbVars, now, rlVars, concVars, cacheVars, modVars, call_last, lthr, results_cache, poll_last>>

\* ModuleManager.execute_all, one turn of the loop of lines 510-514
run_module(r) ==
    /\ run[r].pc = "modules"
    /\ LET name == ModuleNames[run[r].i + 1]
           o == Execute(name, run[r].phone, rate_limited[name], rate_limit_reset[name],
                        parse_class[run[r].phone], now)
           entry == IF o.raised THEN [error |-> o.value] ELSE o.value
           tel == ExecuteTelemetry(tel_requests, tel_errors, name, run[r].phone, o, 0)
       IN  /\ run' = [run EXCEPT
                        ![r].results = DictPut(@, name, entry),
                        ![r].raised_in = IF o.raised THEN @ \cup {name} ELSE @,
                        ![r].i = @ + 1,
                        ![r].pc = IF run[r].i + 1 = Len(ModuleNames)
                                  THEN "ai" ELSE "modules"]
           /\ tel_requests' = tel[1]
           /\ tel_errors' = tel[2]
    /\ UNCHANGED <<dbVars, now, rlVars, concVars, cacheVars, modVars, call_last, lthr, results_cache, poll_last>>

\* An analysis step that is fail-isolated like a module: its exception
\* becomes the ai_analysis entry and the bundle is returned
run_ai_IsolatesFailure(r) ==
    /\ run[r].pc = "ai"
    /\ run' = [run EXCEPT ![r].pc = "set",
                          ![r].results =
                              DictPut(@, "ai_analysis",
                                      IF AnalyzeRaises(rules) THEN [error |-> "KeyError"]
                                      ELSE analyze(rules, run[r].phone))]
    /\ UNCHANGED <<dbVars, now, rlVars, concVars, cacheVars, modVars, telVars, results_cache, poll_last>>

\* An analysis step whose exception ends the thread, with no except branch
run_ai_DiesOnError(r) ==
    /\ run[r].pc = "ai"
    /\ run' = IF AnalyzeRaises(rules)
              THEN [run EXCEPT ![r].pc = "done", ![r].exc = Some("KeyError"),
                               ![r].results = <<>>]
              ELSE [run EXCEPT ![r].pc = "set",
                               ![r].results = DictPut(@, "ai_analysis",
                                                      analyze(rules, run[r].phone))]
    /\ UNCHANGED <<dbVars, now, rlVars, concVars, cacheVars, modVars, telVars, results_cache, poll_last>>

\* ModuleManager.execute_all, line 517: the AI analysis, which may raise
run_ai(r) ==
    /\ run[r].pc = "ai"
    /\ run' = IF AnalyzeRaises(rules)
              THEN [run EXCEPT ![r].pc = "except", ![r].exc = Some("KeyError")]
              ELSE [run EXCEPT ![r].pc = "set",
                               ![r].results = DictPut(@, "ai_analysis",
                                                      analyze(rules, run[r].phone))]
    /\ UNCHANGED <<dbVars, now, rlVars, concVars, cacheVars, modVars, telVars, results_cache, poll_last>>

\* A run that publishes its results and then publishes them once more
run_set_WritesTwice(r) ==
    /\ run[r].pc = "set"
    /\ results_cache' = CacheSet(results_cache, run[r].phone, run[r].results, None, now)
    /\ run' = [run EXCEPT ![r].pc = IF run[r].writes = 0 THEN "set" ELSE "done",
                          ![r].results = IF run[r].writes = 0 THEN @ ELSE <<>>,
                          ![r].written = Some(run[r].results), ![r].writes = @ + 1]
    /\ UNCHANGED <<dbVars, now, rlVars, concVars, cacheVars, modVars, telVars, poll_last>>

\* run_investigation, line 630: results_cache.set(phone_number, results)
run_set(r) ==
    /\ run[r].pc = "set"
    /\ results_cache' = CacheSet(results_cache, run[r].phone, run[r].results, None, now)
    /\ run' = [run EXCEPT ![r].pc = "done", ![r].results = <<>>,
                          ![r].written = Some(run[r].results), ![r].writes = @ + 1]
    /\ UNCHANGED <<dbVars, now, rlVars, concVars, cacheVars, modVars, telVars, poll_last>>

\* An except branch that logs the error and ends without caching anything
run_except_LeavesUncached(r) ==
    /\ run[r].pc = "except"
    /\ run' = [run EXCEPT ![r].pc = "done", ![r].results = <<>>,
                          ![r].written = Some([error |-> run[r].exc[1]]),
                          ![r].writes = @ + 1]
    /\ UNCHANGED <<dbVars, now, rlVars, concVars, cacheVars, modVars, telVars, results_cache, poll_last>>

\* run_investigation, lines 631-633: the except branch
run_except(r) ==
    /\ run[r].pc = "except"
    /\ results_cache' = CacheSet(results_cache, run[r].phone,
                                 [error |-> run[r].exc[1]], None, now)
    /\ run' = [run EXCEPT ![r].pc = "done", ![r].results = <<>>,
                          ![r].written = Some([error |-> run[r].exc[1]]),
                          ![r].writes = @ + 1]
    /\ UNCHANGED <<dbVars, now, rlVars, concVars, cacheVars, modVars, telVars, poll_last>>

\* A truth test that takes an error bundle for "nothing yet"
Truthy_ErrorIsFalsy(data) == DOMAIN data # {} /\ "error" \notin DOMAIN data

\* `if results:` on a dict
Truthy(data) == DOMAIN data # {}

\* an entry for key is stored and its expiry lies in the future
HasUnexpired(d, key, t) == key \in DOMAIN d /\ t < d[key].expiry

\* history: the expiry of the entry that the latest "complete" answer for
\* number p was read from; 0 when no poll has answered complete for p
CompleteUntil(p) == IF poll_last.op = "poll" THEN poll_last.complete_until[p] ELSE 0

\* investigation_status: results_cache.get, then "complete" or "in_progress".
\* (The HTML route `investigation` does the same get behind the rate_limit
\* decorator; the status route is the one a client polls.)
investigation_status(phone_number) ==
    LET r == CacheGet(results_cache, phone_number, now)
        complete == r[2] # None /\ Truthy(r[2][1])
    IN  /\ results_cache' = r[1]
        /\ poll_last' = [op |-> "poll", phone |-> phone_number,
                         status |-> IF complete THEN "complete" ELSE "in_progress",
                         results |-> IF complete THEN r[2] ELSE None,
                         had_unexpired |-> HasUnexpired(results_cache, phone_number, now),
                         stored |-> IF phone_number \in DOMAIN results_cache
                                    THEN Some(results_cache[phone_number].data)
                                    ELSE None,
                         set_called |-> \E x \in RunIds :
                                           run[x].phone = phone_number /\ run[x].writes > 0,
                         flip |-> IF poll_last.op = "poll" THEN ~poll_last.flip ELSE FALSE,
                         complete_until |->
                             [p \in Phones |->
                                 IF p = phone_number /\ complete
                                 THEN results_cache[p].expiry
                                 ELSE CompleteUntil(p)]]
        /\ UNCHANGED <<dbVars, now, rlVars, concVars, cacheVars, modVars, telVars, run>>

OrchTick == Tick /\ UNCHANGED <<dbVars, rlVars, concVars, cacheVars, modVars, telVars, orchVars>>

\* The library's verdict on a number never changes: every number valid, or
\* none valid.
ParseTables ==
    {[p \in Phones |-> "valid"],
     [p \in Phones |-> IF StartsWith(DigitsOf(p), <<"8">>) THEN "unparsable" ELSE "invalid"]}

Init ==
    /\ now = 0
    /\ IdleRL
    /\ IdleCache
    /\ IdleMods
    /\ parse_class = [p \in Phones |-> "valid"]
    /\ rules \in {DefaultRules, BrokenRules}
    /\ IdleOrch

RunStep(r) == run_module(r) \/ run_ai(r) \/ run_set(r) \/ run_except(r)

Next ==
    \/ \E p \in Phones : index_run(p)
    \/ \E r \in RunIds : run_module(r)
    \/ \E r \in RunIds : run_ai(r)
    \/ \E r \in RunIds : run_set(r)
    \/ \E r \in RunIds : run_except(r)
    \/ \E p \in Phones : investigation_status(p)
    \/ OrchTick

Spec == Init /\ [][Next]_vars

\* Runs under a scheduler that does not stop while a started thread can run
\* on; at most MaxLiveRuns runs are started.
live_start(phone_number) ==
    /\ Cardinality({r \in RunIds : run[r].pc # "idle"}) < MaxLiveRuns
    /\ index_run(phone_number)

NextFair ==
    \/ \E p \in Phones : live_start(p)
    \/ \E r \in RunIds : run_module(r)
    \/ \E r \in RunIds : run_ai(r)
    \/ \E r \in RunIds : run_set(r)
    \/ \E r \in RunIds : run_except(r)
    \/ OrchTick

AnyRunStep == \E r \in RunIds : RunStep(r)

FairSpec == Init /\ [][NextFair]_vars /\ WF_vars(AnyRunStep)


\* ------------------------------------------------------------------------
\* One execute_all at a time, with modules that get rate limited
\* ------------------------------------------------------------------------
exec_start(phone_number) ==
    /\ \A r \in RunIds : run[r].pc = "idle"
    /\ index_run(phone_number)

InitExec ==
    /\ now = 0
    /\ IdleRL
    /\ IdleCache
    /\ IdleMods
    /\ parse_class \in ParseTables
    /\ rules \in RuleTables
    /\ IdleOrch

NextExec ==
    \/ \E p \in Phones : exec_start(p)
    \/ \E r \in RunIds : run_module(r)
    \/ \E r \in RunIds : run_ai(r)
    \/ \E r \in RunIds : run_set(r)
    \/ \E r \in RunIds : run_except(r)
    \/ \E m \in Modules, d \in 1..MaxResetTime : handle_rate_limit(m, d)
    \/ OrchTick

SpecExec == InitExec /\ [][NextExec]_vars

\* ------------------------------------------------------------------------
\* Properties of starting, running and polling
\* ------------------------------------------------------------------------
InFlight(r) == run[r].pc \notin {"idle", "done"}
Launched(r) == run[r].pc = "idle" /\ run'[r].pc # "idle"
IsErrorBundle(b) == DOMAIN b = {"error"}

\* C4: start(phoneNumber) launches no run while an unexpired cache entry for
\* that number exists, and otherwise launches exactly one execution.
C4_StartDrivenByCache ==
    [][/\ \A r \in RunIds :
             Launched(r) => ~HasUnexpired(results_cache, run'[r].phone, now)
       /\ Cardinality({r \in RunIds : Launched(r)}) <= 1]_vars

\* C5: a second start for a number whose first run has not completed is a
\* no-op: at most one run per number is in flight at any time.
C5_AtMostOneInFlight ==
    \A p \in Phones : Cardinality({r \in RunIds : InFlight(r) /\ run[r].phone = p}) <= 1

\* C6: every started run writes its outcome to the result cache exactly
\* once: a run that has ended has written once, a run that has not ended
\* has not written, and no run writes twice.
C6_WrittenExactlyOnce ==
    \A r \in RunIds :
        /\ run[r].writes <= 1
        /\ run[r].pc = "done" => (run[r].writes = 1 /\ run[r].written # None)
        /\ run[r].pc # "done" => run[r].writes = 0

\* C6 witness: a run whose execute_all raised has ended with one write
C6_Witness ==
    \E r \in RunIds : run[r].pc = "done" /\ run[r].exc # None /\ run[r].writes = 1

\* C7: under fair scheduling of the run threads every started run leads to
\* a state where it has ended and an unexpired cache entry for its number
\* exists; when execute_all raised, what the run wrote is an error bundle.
C7_PollerNeverWaitsForever ==
    /\ \A r \in RunIds :
          InFlight(r) ~>
              (run[r].pc = "done" /\ HasUnexpired(results_cache, run[r].phone, now))
    /\ [](\A r \in RunIds :
             (run[r].pc = "done" /\ run[r].exc # None) =>
                 (run[r].written # None /\ IsErrorBundle(run[r].written[1])))

\* C7 witness: execute_all raised and the error bundle is in the cache
C7_Witness ==
    \E r \in RunIds :
        /\ run[r].pc = "done"
        /\ run[r].exc # None
        /\ HasUnexpired(results_cache, run[r].phone, now)
        /\ results_cache[run[r].phone].data = [error |-> "KeyError"]

PollStep == poll_last' # poll_last

\* C8, as claimed: poll answers pending whenever no unexpired entry exists,
\* answers complete with the stored bundle in every state after the run's set
\* has been called, and changes neither the runs nor the cache.
C8_Original ==
    /\ [](poll_last.op = "poll" =>
            /\ ~poll_last.had_unexpired => poll_last.status = "in_progress"
            /\ poll_last.set_called =>
                  (poll_last.status = "complete" /\ poll_last.results = poll_last.stored))
    /\ [][PollStep => (run' = run /\ results_cache' = results_cache)]_vars

\* C8, amended: poll answers pending exactly when no unexpired entry for the
\* number exists (also after set, once the entry has expired) and complete
\* with the stored bundle exactly when one exists; it changes no run and no
\* unexpired entry, and removes at most the polled number's expired entry.
C8_PollFollowsUnexpiredEntry ==
    /\ [](poll_last.op = "poll" =>
            /\ ~poll_last.had_unexpired =>
                  (poll_last.status = "in_progress" /\ poll_last.results = None)
            /\ poll_last.had_unexpired =>
                  (poll_last.status = "complete" /\ poll_last.results = poll_last.stored))
    /\ [][PollStep =>
            /\ run' = run
            /\ HasUnexpired(results_cache, poll_last'.phone, now) =>
                  results_cache' = results_cache
            /\ ~HasUnexpired(results_cache, poll_last'.phone, now) =>
                  results_cache' = DictDel(results_cache, poll_last'.phone)]_vars

\* C8 witness: a poll after the run's set, once the entry had expired,
\* answered pending
C8_Witness ==
    /\ poll_last.op = "poll"
    /\ poll_last.set_called
    /\ poll_last.stored # None
    /\ ~poll_last.had_unexpired
    /\ poll_last.status = "in_progress"

\* the run that produced bundle b for number p had heard from every module
ProducedAfterAllReported(p, b) ==
    \E r \in RunIds :
        /\ run[r].phone = p
        /\ run[r].written = Some(b)
        /\ run[r].i = Len(ModuleNames)

\* C9: whenever poll answers complete, the bundle it returns was written by
\* a run in which every registered module had already reported; no entry
\* of the result cache is a partial bundle.
C9_NoPartialResults ==
    /\ (poll_last.op = "poll" /\ poll_last.status = "complete") =>
          ProducedAfterAllReported(poll_last.phone, poll_last.results[1])
    /\ \A p \in DOMAIN results_cache :
          /\ ProducedAfterAllReported(p, results_cache[p].data)
          /\ \/ IsErrorBundle(results_cache[p].data)
             \/ Modules \subseteq DOMAIN results_cache[p].data

\* C9 witness: poll answered complete while another run for the same number
\* had heard from only some of its modules
C9_Witness ==
    /\ poll_last.op = "poll"
    /\ poll_last.status = "complete"
    /\ \E r \in RunIds :
          /\ run[r].phone = poll_last.phone
          /\ run[r].pc = "modules"
          /\ run[r].i \in 1..(Len(ModuleNames) - 1)

\* C10: execute_all calls every registered module whichever of them fail; a
\* module that raised has an error entry, its siblings have entries too, and
\* the bundle returned has one entry per module plus an ai_analysis entry
\* whose risk_level is low, medium or high.
C10_FailIsolatedFanOut ==
    \A r \in RunIds :
        /\ run[r].pc \in {"ai", "set", "except"} =>
              /\ run[r].i = Len(ModuleNames)
              /\ Modules \subseteq DOMAIN run[r].results
              /\ \A m \in run[r].raised_in : IsErrorBundle(run[r].results[m])
        /\ run[r].pc = "set" =>
              /\ DOMAIN run[r].results = Modules \cup {"ai_analysis"}
              /\ run[r].results["ai_analysis"].risk_level \in {"low", "medium", "high"}

\* C10 witness: execute_all returned a bundle although the second module,
\* and one more, had raised
C10_Witness ==
    \E r \in RunIds :
        /\ run[r].pc = "set"
        /\ "social_media" \in run[r].raised_in
        /\ Cardinality(run[r].raised_in) = 2

\* ------------------------------------------------------------------------
\* The life of an investigation
\* ------------------------------------------------------------------------
\* the steps a run_investigation thread can take, by position
RunPath ==
    {<<"idle", "modules">>, <<"modules", "modules">>, <<"modules", "ai">>,
     <<"ai", "set">>, <<"ai", "except">>, <<"set", "done">>, <<"except", "done">>}

RunMovesAlongPath ==
    \A r \in RunIds :
        run'[r] # run[r] => <<run[r].pc, run'[r].pc>> \in RunPath

FailedRunCachesError ==
    \A r \in RunIds :
        (run[r].pc = "except" /\ run'[r].pc = "done") =>
            /\ HasUnexpired(results_cache', run[r].phone, now)
            /\ results_cache'[run[r].phone].data = [error |-> run[r].exc[1]]

\* C11, as claimed: a run moves only NotStarted -> Running -> Complete or
\* Failed and stays there; once poll has answered complete for a number it
\* never answers pending for it again; a failed run's error bundle is in the
\* cache.
C11_Original ==
    /\ [][RunMovesAlongPath]_vars
    /\ [](poll_last.op = "poll" =>
            (CompleteUntil(poll_last.phone) > 0 => poll_last.status = "complete"))
    /\ [](\A r \in RunIds :
            (run[r].pc = "done" /\ run[r].exc # None) =>
                /\ run[r].phone \in DOMAIN results_cache
                /\ IsErrorBundle(results_cache[run[r].phone].data))

\* C11, amended: each run moves only idle -> modules -> ai -> set or except
\* -> done and never leaves done; after poll has answered complete for a
\* number it answers pending for it only once the clock has reached the
\* expiry of the entry it answered from; the step that ends a failed run
\* leaves its error bundle in the cache as an unexpired entry.
C11_TerminalUntilExpiry ==
    /\ [][RunMovesAlongPath /\ FailedRunCachesError]_vars
    /\ [](poll_last.op = "poll" =>
            ((CompleteUntil(poll_last.phone) > 0 /\ poll_last.status = "in_progress")
                => now >= CompleteUntil(poll_last.phone)))

\* C11 witness: poll answered complete for a number whose run had failed,
\* and after the entry's expiry it answers pending for the same number
C11_Witness ==
    /\ poll_last.op = "poll"
    /\ CompleteUntil(poll_last.phone) > 0
    /\ poll_last.status = "in_progress"
    /\ \E r \in RunIds :
          run[r].phone = poll_last.phone /\ run[r].pc = "done" /\ run[r].exc # None

\* ------------------------------------------------------------------------
\* Cache.get called from several request threads while others call Cache.set.
\* Python runs lines 81-87 without any lock, so another thread can run
\* between any two of them; one dict operation is atomic.
\* ------------------------------------------------------------------------
\* line 81: if key in self.cache  (line 87: return None when it is not)
g_in(t, key) ==
    /\ cthr[t].pc = "idle"
    /\ cthr[t].calls < MaxCacheCalls
    /\ cthr' = [cthr EXCEPT ![t].pc = IF key \in DOMAIN cache THEN "read" ELSE "idle",
                            ![t].key = IF key \in DOMAIN cache THEN key ELSE "a",
                            ![t].entry = None,
                            ![t].calls = @ + 1]
    /\ UNCHANGED <<dbVars, now, cache, c_last, c_set, c_absent, rlVars, concVars, modVars, telVars, orchVars>>

\* line 82: data, expiry = self.cache[key]  (KeyError when the key is gone)
g_read(t) ==
    /\ cthr[t].pc = "read"
    /\ cthr' = IF cthr[t].key \in DOMAIN cache
               THEN [cthr EXCEPT ![t].pc = "test", ![t].entry = Some(cache[cthr[t].key])]
               ELSE [cthr EXCEPT ![t].pc = "idle", ![t].raised = TRUE, ![t].key = "a"]
    /\ UNCHANGED <<dbVars, now, cache, c_last, c_set, c_absent, rlVars, concVars, modVars, telVars, orchVars>>

\* line 83: if time.time() < expiry  (line 84: return data)
g_test(t) ==
    /\ cthr[t].pc = "test"
    /\ cthr' = IF now < cthr[t].entry[1].expiry
               THEN [cthr EXCEPT ![t].pc = "idle", ![t].entry = None, ![t].key = "a"]
               ELSE [cthr EXCEPT ![t].pc = "del"]
    /\ UNCHANGED <<dbVars, now, cache, c_last, c_set, c_absent, rlVars, concVars, modVars, telVars, orchVars>>

\* line 86: del self.cache[key]  (KeyError when the key is gone); line 87
g_del(t) ==
    /\ cthr[t].pc = "del"
    /\ IF cthr[t].key \in DOMAIN cache
       THEN /\ cache' = DictDel(cache, cthr[t].key)
            /\ cthr' = [cthr EXCEPT
                          ![t].pc = "idle", ![t].entry = None, ![t].key = "a",
                          ![t].removed_newer =
                              @ \/ (/\ cache[cthr[t].key] # cthr[t].entry[1]
                                    /\ now < cache[cthr[t].key].expiry)]
       ELSE /\ cache' = cache
            /\ cthr' = [cthr EXCEPT ![t].pc = "idle", ![t].raised = TRUE,
                                    ![t].entry = None, ![t].key = "a"]
    /\ UNCHANGED <<dbVars, now, c_last, c_set, c_absent, rlVars, concVars, modVars, telVars, orchVars>>

\* Cache.set from another thread: line 92 is one dict store
c_store(key, data, expiry) ==
    /\ Cardinality(DOMAIN cache \cup {key}) <= MaxCacheKeys
    /\ cache' = CacheSet(cache, key, data, expiry, now)
    /\ UNCHANGED <<dbVars, now, c_last, c_set, c_absent, cthr, rlVars, concVars, modVars, telVars, orchVars>>

InitCacheConc == InitCache

NextCacheConc ==
    \/ \E t \in Threads, k \in CacheKeys : g_in(t, k)
    \/ \E t \in Threads : g_read(t)
    \/ \E t \in Threads : g_test(t)
    \/ \E t \in Threads : g_del(t)
    \/ \E k \in CacheKeys, v \in Values, e \in {None, Some(1)} : c_store(k, v, e)
    \/ CacheTick

SpecCacheConc == InitCacheConc /\ [][NextCacheConc]_vars

\* C12: under any interleaving of concurrent get and set calls on one key,
\* no call fails with an internal error (KeyError), and a get that saw an
\* expired entry never removes a newer unexpired entry stored meanwhile.
C12_SerializedPerKey ==
    \A t \in Threads : ~cthr[t].raised /\ ~cthr[t].removed_newer

\* ------------------------------------------------------------------------
\* Frame and effect of Cache.get and Cache.set, one call at a time
\* ------------------------------------------------------------------------
GetStep == c_last' # c_last /\ c_last'.op = "get"
NoSetStep == c_set' = c_set

\* C13: get(key) on an entry whose expiry has passed returns absent and
\* removes exactly that entry, so that the key is no longer stored; get on an
\* unexpired entry returns its value and leaves the store unchanged, as does
\* get on a key that is not stored.
C13_GetRemovesExpired ==
    [][/\ GetStep =>
            LET k == c_last'.key
            IN  /\ (k \in DOMAIN cache /\ now >= cache[k].expiry) =>
                       /\ c_last'.answer = None
                       /\ k \notin DOMAIN cache'
                       /\ cache' = DictDel(cache, k)
                /\ (k \in DOMAIN cache /\ now < cache[k].expiry) =>
                       /\ c_last'.answer = Some(cache[k].data)
                       /\ cache' = cache
                /\ k \notin DOMAIN cache =>
                       /\ c_last'.answer = None
                       /\ cache' = cache
       /\ NoSetStep =>
            \A k \in DOMAIN cache :
                now < cache[k].expiry => (k \in DOMAIN cache' /\ cache'[k] = cache[k])]_vars

\* C13 witness: a get after the expiry of an entry stored with a positive
\* ttl answered absent and the key is no longer stored, while the other key
\* still is
C13_Witness ==
    /\ c_last.op = "get"
    /\ c_set[c_last.key] # None
    /\ c_set[c_last.key][1].ttl > 0
    /\ c_last.at >= c_set[c_last.key][1].at + c_set[c_last.key][1].ttl
    /\ c_last.answer = None
    /\ c_last.key \notin DOMAIN cache
    /\ DOMAIN cache # {}

SetStep == c_last' # c_last /\ c_last'.op = "set"

\* C14: set(key, value, ttl) replaces whatever entry the key holds (expired,
\* unexpired or none) with value; the new expiry is the time of the call plus
\* ttl whatever the previous expiry was, and plus CACHE_EXPIRY when no ttl is
\* given; no other key is touched.
C14_SetOverwrites ==
    [][SetStep =>
          LET k == c_last'.key
          IN  /\ k \in DOMAIN cache'
              /\ cache'[k].data = c_last'.data
              /\ c_last'.arg = None => cache'[k].expiry = now + CACHE_EXPIRY
              /\ c_last'.arg # None => cache'[k].expiry = now + c_last'.arg[1]
              /\ \A j \in CacheKeys \ {k} :
                    /\ j \in DOMAIN cache' <=> j \in DOMAIN cache
                    /\ j \in DOMAIN cache => cache'[j] = cache[j]]_vars

\* C14 witness: a set replaced an unexpired entry whose expiry lay later
\* than the expiry of the entry now stored
C14_Witness ==
    /\ c_last.op = "set"
    /\ c_last.replaced # None
    /\ c_last.at < c_last.replaced[1].expiry
    /\ c_last.key \in DOMAIN cache
    /\ cache[c_last.key].expiry < c_last.replaced[1].expiry
    /\ cache[c_last.key].data # c_last.replaced[1].data

\* ------------------------------------------------------------------------
\* Direct module calls: ModuleManager.execute_module (src/app/main.py) and
\* NumVerifyConnector.execute (src/app/modules/api_connectors/numverify.py)
\* ------------------------------------------------------------------------
\* names a caller may ask for: the registered ones and one that is not
RequestNames == Modules \cup {"reverse_lookup"}

\* the class of the exception InvestigationModule.execute raises, "none" when
\* it returns: check_rate_limit raises a bare Exception, phonenumbers.parse a
\* NumberParseException
ExceptionClass(name, limited, reset, cls, t) ==
    IF ModuleRateLimited(limited, reset, t) THEN "Exception"
    ELSE IF name = "phone_info" /\ cls = "unparsable" THEN "NumberParseException"
    ELSE "none"

\* history: the number of direct calls made so far
CallsMade == IF call_last.op = "none" THEN 0 ELSE call_last.n

\* ModuleManager.execute_module(module_name, phone_number); the body of a
\* module that runs takes dur seconds
execute_module(module_name, phone_number, dur) ==
    /\ CallsMade < MaxExecs
    /\ \/ /\ module_name \notin Modules
          /\ call_last' = [op |-> "execute_module", module |-> module_name,
                           phone |-> phone_number, found |-> FALSE,
                           outcome |-> Raised("Module not found"),
                           class |-> "ValueError", n |-> CallsMade + 1]
          /\ UNCHANGED <<dbVars, now, rlVars, concVars, cacheVars, modVars, tel_requests,
                         tel_errors, lthr, orchVars>>
       \/ /\ module_name \in Modules
          /\ LET limited == rate_limited[module_name]
                 reset == rate_limit_reset[module_name]
                 cls == parse_class[phone_number]
                 o == Execute(module_name, phone_number, limited, reset, cls, now)
                 response_time == IF ModuleRateLimited(limited, reset, now)
                                  THEN 0 ELSE dur
                 tel == ExecuteTelemetry(tel_requests, tel_errors, module_name,
                                         phone_number, o, response_time)
             IN  /\ now + response_time <= MaxTime
                 /\ now' = now + response_time
                 /\ tel_requests' = tel[1]
                 /\ tel_errors' = tel[2]
                 /\ call_last' = [op |-> "execute_module", module |-> module_name,
                                  phone |-> phone_number, found |-> TRUE,
                                  outcome |-> o,
                                  class |-> ExceptionClass(module_name, limited,
                                                           reset, cls, now),
                                  n |-> CallsMade + 1]
          /\ UNCHANGED <<dbVars, rlVars, concVars, cacheVars, modVars, lthr, orchVars>>

\* what the provider does with one request
ProviderAnswers == {"valid", "not valid", "RequestException", "KeyError"}

\* NumVerifyConnector.execute: the request list afterwards, whether the
\* provider was called, and what the caller gets
NumVerifyExecute(lst, t, answer) ==
    LET c == CheckRateLimitStep(lst, t)
    IN  IF c[2] = "RateLimitException"
        THEN [times |-> c[1], called |-> FALSE, class |-> "APIException",
              outcome |-> Raised([text |-> "Unexpected error in NumVerify",
                                  cause |-> "Rate limit exceeded for numverify"])]
        ELSE CASE answer = "valid" ->
                    [times |-> c[1], called |-> TRUE, class |-> "none",
                     outcome |-> Returned([module |-> "numverify", success |-> TRUE,
                                           error |-> None])]
               [] answer = "not valid" ->
                    [times |-> c[1], called |-> TRUE, class |-> "none",
                     outcome |-> Returned([module |-> "numverify", success |-> FALSE,
                                           error |-> Some("Invalid phone number")])]
               [] answer = "RequestException" ->
                    [times |-> c[1], called |-> TRUE, class |-> "APIException",
                     outcome |-> Raised([text |-> "NumVerify API error",
                                         cause |-> "RequestException"])]
               [] answer = "KeyError" ->
                    [times |-> c[1], called |-> TRUE, class |-> "APIException",
                     outcome |-> Raised([text |-> "Unexpected error in NumVerify",
                                         cause |-> "KeyError"])]

numverify_execute(phone_number, answer) ==
    LET r == NumVerifyExecute(request_times, now, answer)
    IN  /\ request_times' = r.times
        /\ call_last' = [op |-> "numverify", module |-> "numverify",
                         phone |-> phone_number, at |-> now,
                         before |-> request_times, answer |-> answer,
                         outcome |-> r.outcome, class |-> r.class, called |-> r.called]
        /\ UNCHANGED <<dbVars, now, requests, rl_last, concVars, cacheVars, modVars,
                       tel_requests, tel_errors, lthr, orchVars>>

ModTick == Tick /\ UNCHANGED <<dbVars, rlVars, concVars, cacheVars, modVars, telVars, orchVars>>

\* direct calls are explored with one number the library cannot parse and
\* the other valid
InitMod ==
    /\ now = 0
    /\ IdleRL
    /\ IdleCache
    /\ IdleMods
    /\ parse_class = [p \in Phones |->
                         IF StartsWith(DigitsOf(p), <<"8">>) THEN "unparsable" ELSE "valid"]
    /\ rules = DefaultRules
    /\ IdleOrch

\* a provider tells a module, once, that its limit is hit
first_hit(m, reset_time) ==
    /\ ~rate_limited[m]
    /\ handle_rate_limit(m, reset_time)

NextMod ==
    \/ \E m \in RequestNames, p \in Phones, d \in 0..MaxDur : execute_module(m, p, d)
    \/ \E m \in Modules, d \in 1..MaxResetTime : first_hit(m, d)
    \/ ModTick

SpecMod == InitMod /\ [][NextMod]_vars

NextConn ==
    \/ \E p \in Phones, a \in ProviderAnswers : numverify_execute(p, a)
    \/ ModTick

SpecConn == InitRL /\ [][NextConn]_vars

\* ------------------------------------------------------------------------
\* Properties of direct module calls
\* ------------------------------------------------------------------------
ExecStep ==
    call_last' # call_last /\ call_last'.op = "execute_module" /\ call_last'.found

\* C15: every InvestigationModule.execute call is gated by the module's own
\* limiter: when the limiter denies the call (the module is flagged rate
\* limited and its reset time has not come), execute fails with the
\* rate-limited condition and the module body is not run: the caller gets
\* neither the body's result nor the body's own failure, and no time is spent
\* in the body.
C15_GatedByOwnLimiter ==
    [][ExecStep =>
          LET m == call_last'.module
              denied == rate_limited[m] /\ now < rate_limit_reset[m]
          IN  /\ denied =>
                    /\ call_last'.outcome = Raised("Module is rate limited. Try again later.")
                    /\ now' = now
              /\ ~denied =>
                    call_last'.outcome # Raised("Module is rate limited. Try again later.")]_vars

\* C15 witness: phone_info was called while rate limited for a number whose
\* parse would have raised, and the call failed as rate limited
C15_Witness ==
    /\ call_last.op = "execute_module"
    /\ call_last.module = "phone_info"
    /\ parse_class[call_last.phone] = "unparsable"
    /\ rate_limited["phone_info"]
    /\ call_last.outcome = Raised("Module is rate limited. Try again later.")

\* NumVerifyConnector.execute is gated the same way: a denied call raises,
\* names the limiter's refusal as its cause, does not call the provider and
\* records no timestamp
NumVerifyGated ==
    call_last.op = "numverify" =>
        LET kept == Prune(call_last.before, call_last.at, rate_period)
        IN  Len(kept) >= rate_limit =>
                /\ call_last.outcome.raised
                /\ call_last.outcome.value.cause = "Rate limit exceeded for numverify"
                /\ ~call_last.called
                /\ request_times = kept

\* except h: does a handler for class h catch an exception of class c?
\* (every class here derives from Exception directly)
Handles(h, c) == h = c \/ h = "Exception"

ExceptionClasses ==
    {"Exception", "ValueError", "NumberParseException", "APIException", "RateLimitException"}

\* the classes a provider failure or an internal error reaches the caller as
HardFailureClasses == {"NumberParseException", "APIException"}

CallDenied ==
    \/ /\ call_last.op = "numverify"
       /\ Len(Prune(call_last.before, call_last.at, rate_period)) >= rate_limit
    \/ /\ call_last.op = "execute_module"
       /\ call_last.found
       /\ call_last.outcome = Raised("Module is rate limited. Try again later.")

\* C16: a rate-limit denial reaches the caller of execute as a condition of
\* its own: some handler catches the denial and catches no provider or
\* internal failure, so the caller can tell the two apart.
C16_DenialIsDistinct ==
    CallDenied =>
        \E h \in ExceptionClasses :
            /\ Handles(h, call_last.class)
            /\ \A f \in HardFailureClasses : ~Handles(h, f)

\* C17: every call of InvestigationModule.execute appends exactly one request
\* event carrying the module name, the success flag and the elapsed time;
\* when the call fails it also appends one error event with the failure's
\* message, both before the call ends; when it succeeds the error buffer is
\* left alone.
C17_OneEventPerCall ==
    [][ExecStep =>
          LET c == call_last'
              event == [phone_number |-> c.phone, module |-> c.module,
                        success |-> ~c.outcome.raised, response_time |-> now' - now]
              error == [phone_number |-> c.phone, module |-> c.module,
                        error |-> c.outcome.value]
          IN  /\ tel_requests' = LastN(tel_requests \o <<event>>, REQUESTS_CAP)
              /\ c.outcome.raised => tel_errors' = LastN(tel_errors \o <<error>>, ERRORS_CAP)
              /\ ~c.outcome.raised => tel_errors' = tel_errors]_vars

\* C17 witness: a call whose body ran for a while and then raised has left a
\* failure event with the elapsed time and an error event
C17_Witness ==
    /\ call_last.op = "execute_module"
    /\ call_last.found
    /\ call_last.class = "NumberParseException"
    /\ tel_requests # <<>>
    /\ tel_requests[Len(tel_requests)] =
          [phone_number |-> call_last.phone, module |-> "phone_info",
           success |-> FALSE, response_time |-> MaxDur]
    /\ tel_errors # <<>>
    /\ tel_errors[Len(tel_errors)] =
          [phone_number |-> call_last.phone, module |-> "phone_info",
           error |-> "NumberParseException"]

\* ------------------------------------------------------------------------
\* Telemetry called directly (src/app/main.py, class Telemetry)
\* ------------------------------------------------------------------------
\* call_last keeps, for the telemetry specifications, every event in the
\* order in which it was logged
LogHistory(buf) == IF call_last.op = "log" THEN call_last[buf] ELSE <<>>

LogsMade == Len(LogHistory("requests")) + Len(LogHistory("errors"))

LogModules == {"phone_info", "web_search"}

RequestEvents ==
    [phone_number : Phones, module : LogModules, success : BOOLEAN,
     response_time : 0..MaxDur]

ErrorEvents ==
    [phone_number : Phones, module : LogModules, error : {"NumberParseException"}]

log_request(phone_number, module, success, response_time) ==
    /\ LogsMade < MaxLogs
    /\ tel_requests' = LogRequest(tel_requests, phone_number, module, success, response_time)
    /\ call_last' = [op |-> "log",
                     requests |-> Append(LogHistory("requests"),
                                         [phone_number |-> phone_number, module |-> module,
                                          success |-> success,
                                          response_time |-> response_time]),
                     errors |-> LogHistory("errors")]
    /\ UNCHANGED <<dbVars, now, rlVars, concVars, cacheVars, modVars, orchVars, tel_errors, lthr>>

log_error(phone_number, module, error_message) ==
    /\ LogsMade < MaxLogs
    /\ tel_errors' = LogError(tel_errors, phone_number, module, error_message)
    /\ call_last' = [op |-> "log",
                     requests |-> LogHistory("requests"),
                     errors |-> Append(LogHistory("errors"),
                                       [phone_number |-> phone_number, module |-> module,
                                        error |-> error_message])]
    /\ UNCHANGED <<dbVars, now, rlVars, concVars, cacheVars, modVars, orchVars, tel_requests, lthr>>

InitTel ==
    /\ now = 0
    /\ IdleRL
    /\ IdleCache
    /\ IdleMods
    /\ parse_class = [p \in Phones |-> "valid"]
    /\ rules = DefaultRules
    /\ IdleOrch

NextTel ==
    \/ \E e \in RequestEvents :
          log_request(e.phone_number, e.module, e.success, e.response_time)
    \/ \E e \in ErrorEvents : log_error(e.phone_number, e.module, e.error)

SpecTel == InitTel /\ [][NextTel]_vars

\* the list holds exactly the last cap events of the history, oldest first
HoldsMostRecent(lst, history, cap) ==
    /\ Len(lst) = Min(Len(history), cap)
    /\ \A i \in 1..Len(lst) : lst[i] = history[Len(history) - Len(lst) + i]

ErrorsEvicted ==
    /\ Len(LogHistory("errors")) > ERRORS_CAP
    /\ LogHistory("errors")[1] # tel_errors[1]
    /\ Len(tel_errors) = ERRORS_CAP

\* ------------------------------------------------------------------------
\* Telemetry called from several threads: log_request and log_error take no
\* lock, so a thread can be preempted after the append, after the length
\* test, and between building the slice and assigning it
\* ------------------------------------------------------------------------
Buffer(buf) == IF buf = "requests" THEN tel_requests ELSE tel_errors

Cap(buf) == IF buf = "requests" THEN REQUESTS_CAP ELSE ERRORS_CAP

\* assignment of lst to self.requests or self.errors
StoreBuffer(buf, lst) ==
    /\ tel_requests' = IF buf = "requests" THEN lst ELSE tel_requests
    /\ tel_errors' = IF buf = "errors" THEN lst ELSE tel_errors

\* self.requests.append(entry) / self.errors.append(entry)
l_append(t, buf, entry) ==
    /\ lthr[t].pc = "idle"
    /\ LogsMade < MaxLogs
    /\ StoreBuffer(buf, Append(Buffer(buf), entry))
    /\ call_last' = [op |-> "log",
                     requests |-> IF buf = "requests"
                                  THEN Append(LogHistory("requests"), entry)
                                  ELSE LogHistory("requests"),
                     errors |-> IF buf = "errors"
                                THEN Append(LogHistory("errors"), entry)
                                ELSE LogHistory("errors")]
    /\ lthr' = [lthr EXCEPT ![t] = [pc |-> "test", buf |-> buf, sliced |-> <<>>]]
    /\ UNCHANGED <<dbVars, now, rlVars, concVars, cacheVars, modVars, orchVars>>

\* if len(self.requests) > 1000:
l_test(t) ==
    /\ lthr[t].pc = "test"
    /\ lthr' = [lthr EXCEPT ![t] =
                   IF Len(Buffer(lthr[t].buf)) > Cap(lthr[t].buf)
                   THEN [@ EXCEPT !.pc = "slice"]
                   ELSE IdleLog]
    /\ UNCHANGED <<dbVars, now, rlVars, concVars, cacheVars, modVars, orchVars,
                   tel_requests, tel_errors, call_last>>

\* the right-hand side self.requests[-1000:]
l_slice(t) ==
    /\ lthr[t].pc = "slice"
    /\ lthr' = [lthr EXCEPT ![t] =
                   [@ EXCEPT !.pc = "assign",
                             !.sliced = LastN(Buffer(lthr[t].buf), Cap(lthr[t].buf))]]
    /\ UNCHANGED <<dbVars, now, rlVars, concVars, cacheVars, modVars, orchVars,
                   tel_requests, tel_errors, call_last>>

\* self.requests = <the slice>
l_assign(t) ==
    /\ lthr[t].pc = "assign"
    /\ StoreBuffer(lthr[t].buf, lthr[t].sliced)
    /\ lthr' = [lthr EXCEPT ![t] = IdleLog]
    /\ UNCHANGED <<dbVars, now, rlVars, concVars, cacheVars, modVars, orchVars, call_last>>

InitTelConc == InitTel

\* the interleavings are explored with events that differ in the elapsed time
ConcRequestEvents ==
    {e \in RequestEvents : e.module = "phone_info" /\ e.success
                              /\ StartsWith(DigitsOf(e.phone_number), <<"8">>)}

ConcErrorEvents ==
    {e \in ErrorEvents : e.module = "phone_info"
                            /\ StartsWith(DigitsOf(e.phone_number), <<"8">>)}

NextTelConc ==
    \E t \in Threads :
        \/ \E e \in ConcRequestEvents : l_append(t, "requests", e)
        \/ \E e \in ConcErrorEvents : l_append(t, "errors", e)
        \/ l_test(t)
        \/ l_slice(t)
        \/ l_assign(t)

SpecTelConc == InitTelConc /\ [][NextTelConc]_vars

LogQuiet == \A t \in Threads : lthr[t].pc = "idle"

\* a buffer is longer than its capacity while another thread can read it
OverCapacity ==
    Len(tel_requests) > REQUESTS_CAP \/ Len(tel_errors) > ERRORS_CAP

\* every call has returned and one of the most recent events is missing
RecentEventLost ==
    /\ LogQuiet
    /\ \/ ~HoldsMostRecent(tel_requests, LogHistory("requests"), REQUESTS_CAP)
       \/ ~HoldsMostRecent(tel_errors, LogHistory("errors"), ERRORS_CAP)

\* C19: append and trim form one atomic step: under any interleaving of
\* concurrent log_request and log_error calls no buffer exceeds its capacity
\* in a state another thread can see, and once the calls have returned each
\* buffer holds the most recent events, none of them lost.
C19_AppendTrimAtomic ==
    /\ ~OverCapacity
    /\ ~RecentEventLost

\* ------------------------------------------------------------------------
\* POST /investigate (src/app/routes/api.py)
\* ------------------------------------------------------------------------
Range(f) == {f[i] : i \in DOMAIN f}

\* the "modules" lists of the request bodies explored
RequestLists ==
    {<<"all">>, <<"reverse_lookup">>, <<"phone_info", "reverse_lookup">>,
     <<"reverse_lookup", "web_search", "spam_risk">>}

\* lines 28-30: 'all' stands for the four registered modules
RequestedModules(modules) ==
    IF "all" \in Range(modules) THEN ModuleNames ELSE modules

\* one pass of the loop body, lines 34-46: line 36 reads the global `time`,
\* which the file never imports, so NameError is raised before line 37 calls
\* module_manager.execute_module; the handler of line 44 makes it the entry
RouteEntry(module_name) ==
    [executed |-> FALSE,
     logged |-> [module |-> module_name, success |-> FALSE, response_time |-> 0],
     entry |-> [error |-> "name 'time' is not defined"]]

\* investigate(); `valid` is the answer of validate_phone_number.  The route
\* logs to its own TelemetryService, so the events it hands over are kept in
\* call_last and the buffers of main.py's telemetry stay as they are.  Line 49
\* reads current_app.ai_analyzer, which nothing sets, and AIAnalyzer has no
\* method analyze: the handler of line 61 answers 500.
investigate(phone_number, valid, modules) ==
    /\ CallsMade < MaxExecs
    /\ LET names == RequestedModules(modules)
           pass == [i \in DOMAIN names |-> RouteEntry(names[i])]
       IN  call_last' =
              IF ~valid
              THEN [op |-> "investigate", phone |-> phone_number, valid |-> FALSE,
                    requested |-> {}, executed |-> {}, logged |-> <<>>,
                    results |-> <<>>, status |-> 400, n |-> CallsMade + 1]
              ELSE [op |-> "investigate", phone |-> phone_number, valid |-> TRUE,
                    requested |-> Range(names),
                    executed |-> {names[i] : i \in {j \in DOMAIN names : pass[j].executed}},
                    logged |-> [i \in DOMAIN names |-> pass[i].logged],
                    results |-> [name \in Range(names) |->
                                    pass[CHOOSE i \in DOMAIN names :
                                            /\ names[i] = name
                                            /\ \A j \in DOMAIN names :
                                                  names[j] = name => j <= i].entry],
                    status |-> 500, n |-> CallsMade + 1]
    /\ UNCHANGED <<dbVars, now, rlVars, concVars, cacheVars, modVars, tel_requests, tel_errors,
                   lthr, orchVars>>

NextApi ==
    \/ \E name \in RequestNames, p \in Phones, dur \in 0..MaxDur :
          execute_module(name, p, dur)
    \/ \E p \in Phones, valid \in BOOLEAN, modules \in RequestLists :
          investigate(p, valid, modules)

SpecApi == InitMod /\ [][NextApi]_vars

NotFoundStep ==
    call_last' # call_last /\ call_last'.op = "execute_module" /\ ~call_last'.found

\* a request that names an unregistered module among its modules
MixedRequestStep ==
    /\ call_last' # call_last
    /\ call_last'.op = "investigate"
    /\ call_last'.valid
    /\ call_last'.requested \ Modules # {}

IsError(entry) == DOMAIN entry = {"error"}

\* C20: execute_module fails with the module-not-found condition for every
\* name that is not registered, without executing a module and without
\* changing rate-limit or telemetry state; when the name is one of several
\* modules requested from /investigate, only its entry is an error: every
\* registered module requested with it still runs, and its entry is an error
\* only if that module's own execute failed.
C20_NotFoundFailsOnlyItself ==
    [][/\ NotFoundStep =>
            /\ call_last'.outcome = Raised("Module not found")
            /\ call_last'.class = "ValueError"
            /\ UNCHANGED <<now, rlVars, rate_limited, rate_limit_reset,
                           tel_requests, tel_errors>>
       /\ MixedRequestStep =>
            \A name \in call_last'.requested :
                /\ name \notin Modules => IsError(call_last'.results[name])
                /\ name \in Modules =>
                      /\ name \in call_last'.executed
                      /\ IsError(call_last'.results[name]) =>
                            Execute(name, call_last'.phone, rate_limited[name],
                                    rate_limit_reset[name],
                                    parse_class[call_last'.phone], now).raised]_vars

\* the part about ModuleManager.execute_module alone
NotFoundChangesNothing ==
    [][NotFoundStep =>
            /\ call_last'.outcome = Raised("Module not found")
            /\ call_last'.class = "ValueError"
            /\ UNCHANGED <<now, rlVars, rate_limited, rate_limit_reset,
                           tel_requests, tel_errors>>]_vars

\* an unregistered name was called directly after telemetry had recorded
\* an earlier call
NotFoundAfterActivity ==
    /\ call_last.op = "execute_module"
    /\ ~call_last.found
    /\ tel_requests # <<>>

\* ------------------------------------------------------------------------
\* Malformed numbers at the module boundary
\* ------------------------------------------------------------------------
PhoneInfoCalled ==
    /\ call_last.op = "execute_module"
    /\ call_last.found
    /\ call_last.module = "phone_info"
    /\ call_last.outcome # Raised("Module is rate limited. Try again later.")

\* C21: a malformed phone number never raises past the module boundary: for
\* every input, also one the library cannot parse at all, execute of
\* phone_info returns a result, and for a number that is not valid the result
\* carries an explicit error marker.
C21_MalformedNeverRaises ==
    PhoneInfoCalled =>
        /\ ~call_last.outcome.raised
        /\ parse_class[call_last.phone] # "valid" =>
              "error" \in DOMAIN call_last.outcome.value

\* ------------------------------------------------------------------------
\* The analysis functions applied to one input: the number is drawn in the
\* initial state, each step applies one function to it and keeps the answer
\* in call_last
\* ------------------------------------------------------------------------
DigitString(ns) == [i \in DOMAIN ns |-> DigitChars[ns[i] + 1]]

\* longer numbers analysed besides every string of up to MaxDigits digits
LongSamples ==
    {DigitString(<<1, 2, 3, 4, 5, 6, 7, 8, 9, 0>>),
     DigitString(<<9, 8, 7, 6, 5, 4, 3, 2, 1, 0>>),
     DigitString(<<8, 0, 0, 5, 5, 5, 1, 2, 3, 4>>),
     DigitString(<<1, 8, 0, 0, 8, 8, 8, 4>>),
     DigitString(<<8, 0, 0, 8, 8, 8, 9, 0, 0, 9, 7, 6>>),
     DigitString(<<8, 0, 0, 0, 0>>),
     DigitString(<<9, 0, 0, 1, 1, 1, 1>>),
     DigitString(<<2, 0, 2, 5, 5, 5, 0, 1>>),
     DigitString(<<4, 1, 5, 2, 6, 7, 1, 9, 3>>),
     DigitString(<<7, 7, 7, 7, 1, 2, 3>>)}

TestDigits ==
    UNION {[1..n -> {DigitChars[i] : i \in DOMAIN DigitChars}] : n \in 0..MaxDigits}
    \cup LongSamples

\* a table read from modules/reasoning_rules.json with other tiers
SwappedRules ==
    [high_entropy |-> [threshold |-> 1000, message |-> "High entropy detected",
                       risk |-> "low"],
     toll_free |-> [DefaultRules.toll_free EXCEPT !.risk = "high"],
     premium_rate |-> [DefaultRules.premium_rate EXCEPT !.risk = "medium"]]

AnalysisTables == {DefaultRules, LoadedRules, SwappedRules}

ParseClasses == {"valid", "invalid", "unparsable"}

InitPure ==
    /\ now = 0
    /\ IdleRL
    /\ IdleCache
    /\ rate_limited = [m \in Modules |-> FALSE]
    /\ rate_limit_reset = [m \in Modules |-> 0]
    /\ tel_requests = <<>>
    /\ tel_errors = <<>>
    /\ lthr = [t \in Threads |-> IdleLog]
    /\ parse_class = [p \in Phones |-> "valid"]
    /\ rules \in AnalysisTables
    /\ \E digits \in TestDigits :
          call_last = [op |-> "input", phone |-> <<"+">> \o digits]
    /\ IdleOrch

\* AIReasoningEngine.analyze({'phone_number': phone}); risks is the local list
apply_analyze ==
    /\ call_last.op = "input"
    /\ ~AnalyzeRaises(rules)
    /\ LET contributed == Contributions(rules, DigitsOf(call_last.phone))
       IN  call_last' = [op |-> "analyze", phone |-> call_last.phone,
                         risks |-> [i \in DOMAIN contributed |-> contributed[i].risk],
                         result |-> analyze(rules, call_last.phone)]
    /\ UNCHANGED <<dbVars, now, rlVars, concVars, cacheVars, modVars, tel_requests, tel_errors,
                   lthr, orchVars>>

\* PatternAnalyzer.analyze_phone_pattern(phone)
apply_analyze_phone_pattern ==
    /\ call_last.op = "input"
    /\ call_last' = [op |-> "analyze_phone_pattern", phone |-> call_last.phone,
                     result |-> analyze_phone_pattern(call_last.phone)]
    /\ UNCHANGED <<dbVars, now, rlVars, concVars, cacheVars, modVars, tel_requests, tel_errors,
                   lthr, orchVars>>

\* SpamRiskModule._execute(phone), the library classing the number as cls;
\* risk_score is the local variable, result the dict returned
apply_spam_risk(cls) ==
    /\ call_last.op = "input"
    /\ call_last' = [op |-> "spam_risk", phone |-> call_last.phone, cls |-> cls,
                     risk_score |-> SpamRiskLocals(call_last.phone, cls).risk_score,
                     result |-> SpamRiskExecute(call_last.phone, cls).value]
    /\ UNCHANGED <<dbVars, now, rlVars, concVars, cacheVars, modVars, tel_requests, tel_errors,
                   lthr, orchVars>>

NextPure ==
    \/ apply_analyze
    \/ apply_analyze_phone_pattern
    \/ \E cls \in ParseClasses : apply_spam_risk(cls)

SpecPure == InitPure /\ [][NextPure]_vars

\* ------------------------------------------------------------------------
\* Properties of AIReasoningEngine.analyze
\* ------------------------------------------------------------------------
Tier(risk) == CASE risk = "low" -> 1 [] risk = "medium" -> 2 [] risk = "high" -> 3

AnalyzedDigits == DigitsOf(call_last.phone)

\* which rules match the analysed digits
EntropyMatches == calculate_entropy(AnalyzedDigits) > rules.high_entropy.threshold

PrefixMatches(rule) ==
    \E i \in DOMAIN rule.patterns : Contains(AnalyzedDigits, rule.patterns[i])

MatchedTiers ==
    (IF EntropyMatches THEN {rules.high_entropy.risk} ELSE {})
    \cup (IF PrefixMatches(rules.toll_free) THEN {rules.toll_free.risk} ELSE {})
    \cup (IF PrefixMatches(rules.premium_rate) THEN {rules.premium_rate.risk} ELSE {})

\* C22: analyze returns as risk_level the maximum, under low < medium < high,
\* of the tiers of all matched rules, and risk_level low with no insights
\* when no rule matches; when the entropy rule (tier medium) and the
\* toll-free rule (tier low) both match and the premium-rate rule does not,
\* risk_level is medium and both insight strings are present.
C22_MaxTierOfMatched ==
    call_last.op = "analyze" =>
        LET r == call_last.result
        IN  /\ MatchedTiers = {} => r.risk_level = "low" /\ r.insights = <<>>
            /\ MatchedTiers # {} =>
                  /\ r.risk_level \in MatchedTiers
                  /\ \A t \in MatchedTiers : Tier(t) <= Tier(r.risk_level)
            /\ ( /\ EntropyMatches /\ rules.high_entropy.risk = "medium"
                 /\ PrefixMatches(rules.toll_free) /\ rules.toll_free.risk = "low"
                 /\ ~PrefixMatches(rules.premium_rate) )
               => /\ r.risk_level = "medium"
                  /\ rules.high_entropy.message \in Range(r.insights)
                  /\ rules.toll_free.message \in Range(r.insights)

\* C22 witness: the entropy rule and the toll-free rule matched, the
\* premium-rate rule did not, and the answer is medium
C22_Witness ==
    /\ call_last.op = "analyze"
    /\ rules = LoadedRules
    /\ EntropyMatches
    /\ PrefixMatches(rules.toll_free)
    /\ ~PrefixMatches(rules.premium_rate)
    /\ call_last.result.risk_level = "medium"
    /\ Len(call_last.result.insights) = 2

\* the insights a rule-by-rule evaluation gives, in rule order
InsightsInRuleOrder ==
    (IF EntropyMatches THEN <<rules.high_entropy.message>> ELSE <<>>)
    \o (IF PrefixMatches(rules.toll_free) THEN <<rules.toll_free.message>> ELSE <<>>)
    \o (IF PrefixMatches(rules.premium_rate) THEN <<rules.premium_rate.message>> ELSE <<>>)

\* C23: analyze evaluates the rules in the order entropy, toll-free,
\* premium-rate; each rule contributes at most one insight and one tier even
\* when several of its prefixes match, so insights has at most three entries,
\* in rule order, and is as long as the list of contributed tiers.
C23_OneInsightPerRule ==
    call_last.op = "analyze" =>
        /\ Len(call_last.result.insights) <= 3
        /\ call_last.result.insights = InsightsInRuleOrder
        /\ Len(call_last.result.insights) = Len(call_last.risks)

\* C23 witness: two toll-free prefixes and both premium-rate prefixes occur
\* in the number, and each rule has contributed once
C23_Witness ==
    /\ call_last.op = "analyze"
    /\ Cardinality({i \in DOMAIN rules.toll_free.patterns :
                       Contains(AnalyzedDigits, rules.toll_free.patterns[i])}) >= 2
    /\ Cardinality({i \in DOMAIN rules.premium_rate.patterns :
                       Contains(AnalyzedDigits, rules.premium_rate.patterns[i])}) >= 2
    /\ call_last.result.insights =
          <<rules.toll_free.message, rules.premium_rate.message>>

\* C29: with the default rule table the entropy rule never matches (ten
\* symbols give at most log2(10) bits, below the threshold of 3.5), so
\* analyze never answers medium: it answers high exactly when the digits
\* contain 900 or 976, and low otherwise.
C29_DefaultNeverMedium ==
    (call_last.op = "analyze" /\ rules = DefaultRules) =>
        LET premium == \/ Contains(AnalyzedDigits, <<"9", "0", "0">>)
                       \/ Contains(AnalyzedDigits, <<"9", "7", "6">>)
            r == call_last.result
        IN  /\ r.entropy <= 3322
            /\ ~EntropyMatches
            /\ r.risk_level # "medium"
            /\ r.risk_level = "high" <=> premium
            /\ r.risk_level = "low" <=> ~premium

\* C29 witness: ten different digits, the most entropy a number can have,
\* analysed with the default table
C29_Witness ==
    /\ call_last.op = "analyze"
    /\ rules = DefaultRules
    /\ Cardinality(Range(AnalyzedDigits)) = 10
    /\ call_last.result.entropy = 3321
    /\ call_last.result.risk_level = "low"

\* with the default table a premium-rate number is answered high
DefaultAnswersHigh ==
    /\ call_last.op = "analyze"
    /\ rules = DefaultRules
    /\ call_last.result.risk_level = "high"

\* ------------------------------------------------------------------------
\* Properties of PatternAnalyzer.analyze_phone_pattern
\* ------------------------------------------------------------------------
\* a digit occurs in more than half of the positions
RepeatedApplies ==
    \E c \in Range(AnalyzedDigits) : 2 * Count(AnalyzedDigits, c) > Len(AnalyzedDigits)

\* three neighbours rise by one each, or fall by one each
RunAt(digits, i) ==
    LET a == DigitVal(digits[i])
        b == DigitVal(digits[i + 1])
        c == DigitVal(digits[i + 2])
    IN  (b = a + 1 /\ c = b + 1) \/ (b = a - 1 /\ c = b - 1)

SequenceApplies == \E i \in 1..(Len(AnalyzedDigits) - 2) : RunAt(AnalyzedDigits, i)

VirtualApplies == \E pat \in VirtualPatterns3 : Contains(AnalyzedDigits, pat)

FindingsThatApply ==
    (IF RepeatedApplies THEN <<"Repeated digits">> ELSE <<>>)
    \o (IF SequenceApplies THEN <<"Sequences found">> ELSE <<>>)
    \o (IF VirtualApplies THEN <<"Contains virtual number patterns">> ELSE <<>>)

OneToZero == DigitString(<<1, 2, 3, 4, 5, 6, 7, 8, 9, 0>>)

\* C25: the three checks (a digit in more than half the positions, a run of
\* three ascending or descending neighbours, a 3-digit run from the virtual
\* set) are evaluated independently and every finding that applies is
\* reported, in that order; for 1234567890 the sequence finding lists 123,
\* 456 and 789 and no repeated-digit finding is reported.
C25_AllFindingsReported ==
    call_last.op = "analyze_phone_pattern" =>
        LET r == call_last.result
        IN  /\ [i \in DOMAIN r |-> r[i].finding] = FindingsThatApply
            /\ AnalyzedDigits = OneToZero =>
                  /\ r[1].finding = "Sequences found"
                  /\ {<<"1", "2", "3">>, <<"4", "5", "6">>, <<"7", "8", "9">>}
                        \subseteq Range(r[1].items)

\* C25 witness: 1234567890 was analysed: a sequence finding and a virtual
\* pattern finding, no repeated digit
C25_Witness ==
    /\ call_last.op = "analyze_phone_pattern"
    /\ AnalyzedDigits = OneToZero
    /\ Len(call_last.result) = 2
    /\ Len(call_last.result[1].items) = 7

\* all three findings reported for one number
AllThreeFindings ==
    /\ call_last.op = "analyze_phone_pattern"
    /\ Len(call_last.result) = 3

\* ------------------------------------------------------------------------
\* Properties of SpamRiskModule._execute
\* ------------------------------------------------------------------------
ValidityPenalty ==
    CASE call_last.cls = "invalid" -> 30
      [] call_last.cls = "unparsable" -> 50
      [] call_last.cls = "valid" -> 0

SpamPrefixes ==
    {i \in DOMAIN known_spam_prefixes : StartsWith(AnalyzedDigits, known_spam_prefixes[i])}

PrefixBonus == IF SpamPrefixes # {} THEN 20 ELSE 0

VirtualBonus ==
    IF \E pat \in VirtualPatterns4 : Contains(AnalyzedDigits, pat) THEN 15 ELSE 0

\* C24: the score is the sum of at most one validity penalty (30 invalid, 50
\* unparsable), 20 for the first matching known spam prefix only and 15 for a
\* virtual 4-digit pattern; a sum of 0 becomes 10; the reported score lies in
\* 0..100; the tier is Low below 20, Medium below 50, High otherwise.  An
\* unparsable number scores 50 before the other adjustments, a valid number
\* without prefix or pattern scores 10.
C24_ScoreComposition ==
    call_last.op = "spam_risk" =>
        LET r == call_last.result
            sum == ValidityPenalty + PrefixBonus + VirtualBonus
        IN  /\ r.risk_score = Min(100, IF sum = 0 THEN 10 ELSE sum)
            /\ r.risk_score \in 0..100
            /\ r.risk_level = (IF r.risk_score < 20 THEN "Low"
                               ELSE IF r.risk_score < 50 THEN "Medium" ELSE "High")
            /\ Len(r.reasons) = (IF ValidityPenalty > 0 THEN 1 ELSE 0)
                                + (IF PrefixBonus > 0 THEN 1 ELSE 0)
                                + (IF VirtualBonus > 0 THEN 1 ELSE 0)
            /\ PrefixBonus > 0 =>
                  r.reasons[IF ValidityPenalty > 0 THEN 2 ELSE 1] =
                     <<"Matches known spam prefix",
                       known_spam_prefixes[CHOOSE i \in SpamPrefixes :
                                              \A j \in SpamPrefixes : i <= j]>>
            /\ (call_last.cls = "unparsable" /\ PrefixBonus = 0 /\ VirtualBonus = 0)
                  => r.risk_score = 50
            /\ (call_last.cls = "valid" /\ PrefixBonus = 0 /\ VirtualBonus = 0)
                  => r.risk_score = 10

\* C24 witness: an unparsable number with a spam prefix and a virtual pattern
\* scored 50 + 20 + 15
C24_Witness ==
    /\ call_last.op = "spam_risk"
    /\ call_last.cls = "unparsable"
    /\ PrefixBonus = 20
    /\ VirtualBonus = 15
    /\ call_last.result.risk_score = 85
    /\ call_last.result.risk_level = "High"

\* a valid number without prefix or pattern got the default score
DefaultScoreGiven ==
    /\ call_last.op = "spam_risk"
    /\ call_last.cls = "valid"
    /\ PrefixBonus = 0
    /\ VirtualBonus = 0
    /\ call_last.result.risk_score = 10

SpamScores == {10, 15, 20, 30, 35, 45, 50, 65, 70, 85}

\* C30: for every input the reported risk_score is one of 10, 15, 20, 30, 35,
\* 45, 50, 65, 70, 85, so the clamp to 100 never changes the score; reasons
\* is empty exactly when the score is 10; and the tier derived from the
\* unclamped score is the tier of the reported score.
C30_ScoreValues ==
    call_last.op = "spam_risk" =>
        LET r == call_last.result
        IN  /\ r.risk_score \in SpamScores
            /\ r.risk_score = call_last.risk_score
            /\ r.reasons = <<>> <=> r.risk_score = 10
            /\ GetRiskLevel(call_last.risk_score) = GetRiskLevel(r.risk_score)
            /\ r.risk_level = GetRiskLevel(r.risk_score)

\* C30 witness: an invalid number with a spam prefix, 30 + 20, is High
C30_Witness ==
    /\ call_last.op = "spam_risk"
    /\ call_last.cls = "invalid"
    /\ call_last.risk_score = 50
    /\ Len(call_last.result.reasons) = 2
    /\ call_last.result.risk_level = "High"

\* ------------------------------------------------------------------------
\* Denied calls and the rate window
\* ------------------------------------------------------------------------
LimiterStep == rl_last' # rl_last /\ rl_last'.op \in {"is_allowed", "check_rate_limit"}

\* fewer than limit admissions of the key lie inside the window that ends at
\* t: the limit-th most recent admission, if there is one, is period or more
\* in the past
WindowHasRoom(key, t, limit, period) ==
    \/ Len(admitted[key]) < limit
    \/ t - admitted[key][Len(admitted[key]) - limit + 1] >= period

\* C26: denied calls do not extend a key's rate window: when a key has
\* reached its limit and its callers keep calling, the next call is admitted
\* as soon as the oldest admitted timestamp of the window is period or more in
\* the past, however many calls were denied in between.
C26_DeniedCallsDoNotExtendWindow ==
    [][LimiterStep =>
          LET c == rl_last'
          IN  /\ (c.op = "is_allowed"
                  /\ WindowHasRoom(c.key, c.at, RATE_LIMIT_REQUESTS, RATE_LIMIT_PERIOD))
                    => c.answer
              /\ (c.op = "check_rate_limit"
                  /\ WindowHasRoom(c.key, c.at, rate_limit, rate_period))
                    => c.answer]_vars

\* C26 witness: the key was at its limit, calls for it were denied twice in a
\* row, and the call made once the window had passed was admitted
C26_Witness ==
    /\ rl_last.op = "is_allowed"
    /\ rl_last.answer
    /\ rl_last.denied_run = MaxDeniedRun
    /\ Len(rl_last.before) = RATE_LIMIT_REQUESTS
    /\ \A i \in DOMAIN rl_last.before : rl_last.at - rl_last.before[i] >= RATE_LIMIT_PERIOD

\* ------------------------------------------------------------------------
\* The analysis step of execute_all
\* ------------------------------------------------------------------------
\* C27: the AI-analysis step of execute_all is not fail-isolated: it runs
\* only after every module has reported, and when it raises, execute_all
\* raises and run_investigation caches a bundle that holds an error entry
\* only, without per-module results and without an ai_analysis entry.
C27_AnalysisNotIsolated ==
    /\ [](\A r \in RunIds :
             /\ run[r].pc = "ai" =>
                   /\ run[r].i = Len(ModuleNames)
                   /\ DOMAIN run[r].results = Modules
             /\ (run[r].pc = "done" /\ run[r].exc # None) =>
                   /\ run[r].written = Some([error |-> run[r].exc[1]])
                   /\ run[r].writes = 1)
    /\ [][\A r \in RunIds :
             /\ (run[r].pc = "ai" /\ run'[r] # run[r] /\ AnalyzeRaises(rules)) =>
                   /\ run'[r].pc = "except"
                   /\ run'[r].exc # None
                   /\ results_cache' = results_cache
             /\ (run[r].pc = "except" /\ run'[r] # run[r]) =>
                   /\ run'[r].pc = "done"
                   /\ DOMAIN results_cache'[run[r].phone].data = {"error"}]_vars

\* C27 witness: every module had reported, none of them had raised, the
\* analysis raised, and the run ended having cached the error alone
C27_Witness ==
    \E r \in RunIds :
        /\ run[r].pc = "done"
        /\ run[r].i = Len(ModuleNames)
        /\ run[r].raised_in = {}
        /\ run[r].exc = Some("KeyError")
        /\ run[r].written = Some([error |-> "KeyError"])

\* ------------------------------------------------------------------------
\* DatabaseManager (src/app/data/database.py): one InvestigationRequest row.
\* Every call opens a session, loads the row, commits and closes, so the next
\* call sees what the commit wrote.  modules_completed and results are plain
\* JSON columns: the unit of work writes an attribute that was assigned to,
\* and does not notice a list or dict that was changed in place.
\* ------------------------------------------------------------------------
DbModules == {"phone_info", "spam_risk", "web_search"}

\* the `modules` arguments explored; None stands for the default
ModuleLists ==
    {None, Some(<<>>), Some(<<"phone_info">>), Some(<<"phone_info", "spam_risk">>),
     Some(<<"spam_risk", "spam_risk">>)}

\* create_investigation(phone_number, modules=modules); the column defaults
\* fill modules_completed, results and processing_time at the INSERT
create_investigation(modules) ==
    /\ investigation = None
    /\ investigation' =
          Some([status |-> "pending",
                modules_requested |-> IF modules = None THEN <<>> ELSE modules[1],
                modules_completed |-> <<>>,
                results |-> <<>>,
                processing_time |-> 0])
    /\ UNCHANGED <<now, rlVars, concVars, cacheVars, modVars, telVars, results_cache,
                   run, poll_last>>

\* update_investigation_results(id, results, module_name, processing_time)
update_investigation_results(results, module_name, processing_time) ==
    /\ CallsMade < MaxUpdates
    /\ IF investigation = None
       THEN /\ call_last' = [op |-> "update_investigation_results",
                             module |-> module_name, answer |-> FALSE,
                             n |-> CallsMade + 1]
            /\ UNCHANGED investigation
       ELSE LET row == investigation[1]
                \* lines 273-276: an empty dict is replaced by a new one, which
                \* is assigned and so written; a filled one is changed in place
                assigned == row.results = <<>>
                results_now == DictPut(row.results, module_name, results)
                \* lines 279-280, on the list loaded from the row
                completed_now == IF module_name \in Range(row.modules_completed)
                                 THEN row.modules_completed
                                 ELSE Append(row.modules_completed, module_name)
                \* line 286
                all_done == Range(row.modules_requested) = Range(completed_now)
            IN  /\ investigation' =
                      Some([status |-> IF all_done THEN "completed" ELSE row.status,
                            modules_requested |-> row.modules_requested,
                            modules_completed |-> row.modules_completed,
                            results |-> IF assigned THEN results_now ELSE row.results,
                            processing_time |-> row.processing_time + processing_time])
                /\ call_last' = [op |-> "update_investigation_results",
                                 module |-> module_name, answer |-> TRUE,
                                 completed_in_call |-> completed_now,
                                 n |-> CallsMade + 1]
    /\ UNCHANGED <<now, rlVars, concVars, cacheVars, modVars, tel_requests, tel_errors,
                   lthr, orchVars>>

InitDb == InitTel

NextDb ==
    \/ \E modules \in ModuleLists : create_investigation(modules)
    \/ \E module_name \in DbModules, processing_time \in 0..1 :
          update_investigation_results([module |-> module_name], module_name,
                                       processing_time)

SpecDb == InitDb /\ [][NextDb]_vars

Updated ==
    /\ investigation # None
    /\ call_last.op = "update_investigation_results"
    /\ call_last.answer

NoDuplicates(lst) == \A i, j \in DOMAIN lst : lst[i] = lst[j] => i = j

\* C28: for a stored investigation request, after any sequence of
\* update_investigation_results calls, status is 'completed' exactly when the
\* set of modules_completed equals the set of modules_requested, and
\* modules_completed holds each module name at most once.
C28_CompletedIffAllModules ==
    Updated =>
        LET row == investigation[1]
        IN  /\ row.status = "completed" <=>
                  Range(row.modules_completed) = Range(row.modules_requested)
            /\ NoDuplicates(row.modules_completed)

\* the part about duplicates alone
CompletedOnce == Updated => NoDuplicates(investigation[1].modules_completed)

\* the row says completed although it lists no completed module
CompletedWithoutModules ==
    /\ Updated
    /\ investigation[1].status = "completed"
    /\ investigation[1].modules_completed = <<>>
    /\ investigation[1].modules_requested # <<>>

\* every requested module was updated and the row still says pending
NeverCompleted ==
    /\ Updated
    /\ call_last.n = 2
    /\ investigation[1].modules_requested = <<"phone_info", "spam_risk">>
    /\ DOMAIN investigation[1].results = {"phone_info"}
    /\ investigation[1].status = "pending"

====
